---- MODULE Spec2Model ----
(***************************************************************************)
(* A model of the NL -> SQL pipeline of raindrop-takehome (pkg/shared):    *)
(* the constrained query generator (openai.go), the grammar synthesizer    *)
(* (schema.go), the query executor, the verification harness (eval.go)     *)
(* and its summary, the query endpoint (api/query) and the build-time      *)
(* gate (cmd/eval-check).                                                  *)
(*                                                                         *)
(* Go strings that the code treats as opaque are TLA+ strings.  Strings    *)
(* the code sorts or rewrites character by character (table and column     *)
(* names) are sequences of ASCII codes.  Strings the code builds with      *)
(* fmt.Sprintf or tests for emptiness are texts: sequences of non-empty    *)
(* fragments, the empty string being the empty sequence.  A Go error is a  *)
(* record [kind, msg]: kind "nil" is the nil error, "unsupported" is an    *)
(* ErrUnsupportedQuery (msg is its Reason), "generic" is any error built   *)
(* with fmt.Errorf (msg is its text).                                      *)
(***************************************************************************)
EXTENDS Integers, Sequences, FiniteSets, TLC

VARIABLES
    \* ---- constrained query generator (one call of GenerateSQLWithTime)
    genPc,          \* "idle" | "done"
    genClient,      \* the OpenAIClient: [grammar, toolDescription]
    genReq,         \* the request sent to the service, NoRequest if none
    genResp,        \* the service's answer to it, NoResponse if none
    genResult,      \* [sql, err] returned by the call
    \* ---- grammar synthesizer (one call of GenerateGrammar)
    gramPc,         \* "idle" | "done"
    schema,         \* the Schema: a sequence of Datasources
    grammar,        \* the generated grammar text, as a sequence of lines
    grammar2,       \* the text a second call on the same schema generates
    \* ---- verification harness (one call of RunEvals)
    cases,          \* the eval case list
    results,        \* the pre-sized result array
    task,           \* per-case goroutine: its position and locals
    wg,             \* the WaitGroup counter
    mainPc,         \* RunEvals' own position
    firstErr,       \* the error RunEvals returns
    firstDone,      \* history: the index of the case whose task finished first
    slotLog,        \* history: per slot of the result array, its accesses in order
    \* ---- summary (one call of ComputeSummary)
    sumPc,          \* "idle" | "done"
    sumIn,          \* the result list given to ComputeSummary
    sumOut,         \* the EvalSummary it returns
    \* ---- query executor (one call of ExecuteQuery)
    execPc,         \* "idle" | "done"
    execSql,        \* the sql argument, as a sequence of ASCII codes
    execQuery,      \* the query text built for the engine
    execAns,        \* the engine's answer
    execResult,     \* [resp, err] returned by the call
    \* ---- query endpoint (one request served by Handler)
    handlerPc,      \* "idle" | "done"
    handlerReq,     \* the request and what the handler's calls met
    handlerCalls,   \* what GenerateSQL and ExecuteQuery returned to it
    handlerResp,    \* the status written and the QueryResponse encoded
    \* ---- eval endpoint (one request served by api/eval's Handler)
    apiPc,          \* "idle" | "evals" | "done" ("off": not the entry point run)
    apiReq,         \* the request: its method, whether config and schema load
    apiSteps,       \* history: the steps it took from the schema fetch on, in order
    apiResp,        \* the status written and the body encoded
    \* ---- scalar comparison (two calls of valuesEqual)
    cmpPc,          \* "first" | "second" | "done" | "row" | "data"
    cmpIn,          \* the arguments of the next call, then of the last
    cmpOut,         \* what the last call returned
    cmpPrev,        \* the arguments and the result of the call before
    \* ---- build-time gate (one run of eval-check's main)
    checkPc,        \* "main" | "evals" | "exited"
    checkEnv,       \* whether LoadConfig and FetchSchema succeed
    exitCode,       \* the exit status of the process, once exited
    buildLog,       \* the last message logged
    checkSteps      \* history: the steps main took from the schema fetch on, in order

genVars  == <<genPc, genClient, genReq, genResp, genResult>>
gramVars == <<gramPc, schema, grammar, grammar2>>
evalVars == <<cases, results, task, wg, mainPc, firstErr, firstDone, slotLog>>
sumVars  == <<sumPc, sumIn, sumOut>>
execVars == <<execPc, execSql, execQuery, execAns, execResult>>
handlerVars == <<handlerPc, handlerReq, handlerCalls, handlerResp>>
cmpVars  == <<cmpPc, cmpIn, cmpOut, cmpPrev>>
checkVars == <<checkPc, checkEnv, exitCode, buildLog, checkSteps>>
apiVars  == <<apiPc, apiReq, apiSteps, apiResp>>
vars     == <<genVars, gramVars, evalVars, sumVars, execVars, handlerVars, cmpVars,
              checkVars, apiVars>>

----------------------------------------------------------------------------
(* Texts and errors *)

\* A string literal as a text.
Str(s) == IF s = "" THEN <<>> ELSE <<s>>

\* fmt.Sprintf: the fragments of the format and of its arguments, in order.
RECURSIVE Sprintf(_)
Sprintf(parts) ==
    IF parts = <<>> THEN <<>> ELSE Head(parts) \o Sprintf(Tail(parts))

NilErr == [kind |-> "nil", msg |-> <<>>]
ErrUnsupportedQuery(reason) == [kind |-> "unsupported", msg |-> reason]
Errorf(parts) == [kind |-> "generic", msg |-> Sprintf(parts)]

\* err.Error()
ErrorText(err) == err.msg

\* errors.As(err, &ErrUnsupportedQuery{}): no generic error of this code
\* wraps an ErrUnsupportedQuery, so the test is on the error's own type.
IsUnsupported(err) == err.kind = "unsupported"

----------------------------------------------------------------------------
(* The generation service's answer *)

StatusOK == 200

\* The output items a response may carry: Type, Name and Input as the
\* service sets them.  The payloads of cannot_answer are JSON texts.
PayloadReason   == "{\"reason\":\"no such table\"}"
PayloadEmpty    == "{\"reason\":\"\"}"
PayloadNoReason == "{}"
PayloadBad      == "not json"

OutputItems ==
    { [Type |-> "custom_tool_call", Name |-> "sql_generator", Input |-> "SELECT COUNT(*) FROM order_items;"],
      [Type |-> "custom_tool_call", Name |-> "sql_generator", Input |-> ""],
      [Type |-> "function_call",    Name |-> "cannot_answer", Input |-> PayloadReason],
      [Type |-> "function_call",    Name |-> "cannot_answer", Input |-> PayloadEmpty],
      [Type |-> "function_call",    Name |-> "cannot_answer", Input |-> PayloadNoReason],
      [Type |-> "function_call",    Name |-> "cannot_answer", Input |-> PayloadBad],
      [Type |-> "function_call",    Name |-> "sql_generator", Input |-> "SELECT 1;"],
      [Type |-> "custom_tool_call", Name |-> "cannot_answer", Input |-> PayloadReason],
      [Type |-> "message",          Name |-> "",              Input |-> ""] }

\* The longest output list the service is taken to return.
MaxOutput == 2

Outputs == UNION { [1..n -> OutputItems] : n \in 0..MaxOutput }

\* A response: did http.Do succeed, did io.ReadAll succeed, the status
\* code, did the body unmarshal, and the output list it unmarshals to.
\* `raw` is the body text, parseOk and output what json.Unmarshal makes of it.
Response(doOk, readOk, status, raw, parseOk, output) ==
    [doOk |-> doOk, readOk |-> readOk, status |-> status, raw |-> raw,
     parseOk |-> parseOk, output |-> output]

NoResponse == Response(FALSE, FALSE, 0, "", FALSE, <<>>)

RefusalItem ==
    [Type |-> "function_call", Name |-> "cannot_answer", Input |-> PayloadReason]

ServiceResponses ==
    { Response(FALSE, FALSE, 0, "", FALSE, <<>>),
      Response(TRUE, FALSE, StatusOK, "", FALSE, <<>>),
      Response(TRUE, TRUE, 429, "rate limited", FALSE, <<>>),
      Response(TRUE, TRUE, 500, "{\"output\":[...]}", TRUE, <<RefusalItem>>),
      Response(TRUE, TRUE, StatusOK, "<html>", FALSE, <<>>) }
    \cup { Response(TRUE, TRUE, StatusOK, "{\"output\":[...]}", TRUE, out) : out \in Outputs }

\* json.Unmarshal([]byte(item.Input), &CannotAnswerInput{}): [ok, Reason].
\* A JSON object without the field leaves Reason at its zero value "".
UnmarshalCannotAnswer(input) ==
    CASE input = PayloadReason   -> [ok |-> TRUE,  Reason |-> Str("no such table")]
      [] input = PayloadEmpty    -> [ok |-> TRUE,  Reason |-> Str("")]
      [] input = PayloadNoReason -> [ok |-> TRUE,  Reason |-> Str("")]
      [] OTHER                   -> [ok |-> FALSE, Reason |-> Str("")]

GenericReason == Str("Query cannot be answered with available data")

----------------------------------------------------------------------------
(* Strings as sequences of ASCII codes, and sort.Strings *)

Range(s) == { s[i] : i \in 1..Len(s) }

\* a < b in Go's string order: bytewise lexicographic, a proper prefix first.
RECURSIVE StrLess(_, _)
StrLess(a, b) ==
    IF b = <<>> THEN FALSE
    ELSE IF a = <<>> THEN TRUE
    ELSE IF Head(a) # Head(b) THEN Head(a) < Head(b)
    ELSE StrLess(Tail(a), Tail(b))

\* Insert x into the ascending sequence s, after the elements not above it.
RECURSIVE Insert(_, _)
Insert(x, s) ==
    IF s = <<>> THEN <<x>>
    ELSE IF StrLess(x, Head(s)) THEN <<x>> \o s
    ELSE <<Head(s)>> \o Insert(x, Tail(s))

\* SortStrings leaving the strings in the order given.
SortStrings_AsGiven(s) == s

\* sort.Strings: the same strings, duplicates kept, in ascending order.
RECURSIVE SortStrings(_)
SortStrings(s) ==
    IF s = <<>> THEN <<>> ELSE Insert(Head(s), SortStrings(Tail(s)))

IsUpper(c) == c \in 65..90
IsLower(c) == c \in 97..122
IsDigit(c) == c \in 48..57
Underscore == 95

\* strings.ToUpper on one ASCII character.
ToUpperChar(c) == IF IsLower(c) THEN c - 32 ELSE c

----------------------------------------------------------------------------
(* Grammar synthesizer: Schema.GenerateGrammar and its helpers *)

\* "COL_"
ColPrefix == <<67, 79, 76, 95>>

\* sanitizeColumnName: every character outside [A-Za-z0-9_] becomes "_",
\* the result is upper-cased and prefixed with COL_.
sanitizeColumnName(name) ==
    ColPrefix \o
    [i \in 1..Len(name) |->
        ToUpperChar(IF IsUpper(name[i]) \/ IsLower(name[i]) \/ IsDigit(name[i])
                       \/ name[i] = Underscore
                    THEN name[i] ELSE Underscore)]

\* The names of the datasources, in schema order (the first loop).
TableNamesOf(s) == [i \in 1..Len(s) |-> s[i].Name]

\* columnSet: the column names of every datasource, as map keys.
ColumnSet(s) ==
    UNION { { s[i].Columns[j].Name : j \in 1..Len(s[i].Columns) } : i \in 1..Len(s) }

\* The orders in which `for name := range columnSet` may visit the keys:
\* Go leaves the iteration order of a map unspecified.
IterationOrders(set) ==
    { f \in [1..Cardinality(set) -> set] : \A i, j \in DOMAIN f : f[i] = f[j] => i = j }

\* The keys of a map in one iteration order.
RECURSIVE KeysOf(_)
KeysOf(set) ==
    IF set = {} THEN <<>>
    ELSE LET k == CHOOSE x \in set : TRUE IN <<k>> \o KeysOf(set \ {k})

\* The terminal definitions, one line per sorted column name.
TerminalLines(columnNames) ==
    [i \in 1..Len(columnNames) |->
        <<"terminal", sanitizeColumnName(columnNames[i]), columnNames[i]>>]

ColRules(columnNames) ==
    [i \in 1..Len(columnNames) |-> sanitizeColumnName(columnNames[i])]

\* The table rule: the sorted, quoted names, or IDENTIFIER for no table.
TableRule(s) ==
    IF Len(s) > 0
    THEN <<"table:", SortStrings(TableNamesOf(s))>>
    ELSE <<"table: IDENTIFIER">>

\* The column rule: the terminals of the sorted column names, or
\* IDENTIFIER when the schema has no column.
ColumnRule(columnNames) ==
    IF Len(columnNames) > 0
    THEN <<"column:", ColRules(columnNames)>>
    ELSE <<"column: IDENTIFIER">>

\* GenerateGrammar when the map iteration visits the column names in the
\* order `keys`: the grammar text, line by line.  The fixed productions
\* before and after the schema-dependent part are one line each.
GenerateGrammarFrom(s, keys) ==
    LET columnNames == SortStrings(keys)
    IN  << <<"header">>, <<"# Tables">>, TableRule(s), <<"# Columns">> >>
        \o (IF Len(columnNames) > 0 THEN TerminalLines(columnNames) ELSE <<>>)
        \o << ColumnRule(columnNames), <<"footer">> >>

\* GenerateGrammar in one iteration order of the map.
GenerateGrammar(s) == GenerateGrammarFrom(s, KeysOf(ColumnSet(s)))

\* dsMap[name]: the last datasource of the schema carrying that name.
DsMap(s, name) ==
    s[CHOOSE i \in 1..Len(s) :
        /\ s[i].Name = name
        /\ \A j \in 1..Len(s) : s[j].Name = name => j <= i]

\* colMap[name]: the last column of the datasource carrying that name.
ColMap(ds, name) ==
    ds.Columns[CHOOSE i \in 1..Len(ds.Columns) :
        /\ ds.Columns[i].Name = name
        /\ \A j \in 1..Len(ds.Columns) : ds.Columns[j].Name = name => j <= i]

\* The "- name (type)" lines of one datasource, by sorted column name.
ColumnLines(ds) ==
    LET colNames == SortStrings([i \in 1..Len(ds.Columns) |-> ds.Columns[i].Name])
    IN  [i \in 1..Len(colNames) |->
            <<"-", ColMap(ds, colNames[i]).Name, ColMap(ds, colNames[i]).Type>>]

RECURSIVE TableSections(_, _)
TableSections(s, dsNames) ==
    IF dsNames = <<>> THEN <<>>
    ELSE << <<"##", DsMap(s, Head(dsNames)).Name>> >>
         \o ColumnLines(DsMap(s, Head(dsNames)))
         \o TableSections(s, Tail(dsNames))

\* GenerateToolDescription: the capability text, line by line.
GenerateToolDescription(s) ==
    << <<"Generates valid ClickHouse SQL queries.">>,
       <<"Available tables and columns:">> >>
    \o TableSections(s, SortStrings(TableNamesOf(s)))
    \o << <<"Supported operations:">> >>

----------------------------------------------------------------------------
(* Constrained query generator: OpenAIClient *)

\* NewOpenAIClient: grammar and toolDescription are the empty string.
NewOpenAIClient == [grammar |-> <<>>, toolDescription |-> <<>>]

\* SetSchema
SetSchema(c, s) ==
    [c EXCEPT !.grammar = GenerateGrammar(s),
              !.toolDescription = GenerateToolDescription(s)]

IsSqlCall(item)     == item.Type = "custom_tool_call" /\ item.Name = "sql_generator"
IsRefusalCall(item) == item.Type = "function_call" /\ item.Name = "cannot_answer"

\* RefusalOf failing the call when the payload does not parse.
RefusalOf_ParseFailureIsError(item) ==
    IF ~UnmarshalCannotAnswer(item.Input).ok
    THEN Errorf(<<Str("failed to parse refusal: ")>>)
    ELSE ErrUnsupportedQuery(UnmarshalCannotAnswer(item.Input).Reason)

\* The refusal built from a cannot_answer item.
RefusalOf(item) ==
    IF ~UnmarshalCannotAnswer(item.Input).ok
    THEN ErrUnsupportedQuery(GenericReason)
    ELSE ErrUnsupportedQuery(UnmarshalCannotAnswer(item.Input).Reason)

\* ScanOutput returning the call's input along with the refusal.
RECURSIVE ScanOutput_InputWithRefusal(_)
ScanOutput_InputWithRefusal(output) ==
    IF output = <<>>
    THEN [sql |-> Str(""), err |-> Errorf(<<Str("no SQL generated in response")>>)]
    ELSE IF IsSqlCall(Head(output))
    THEN [sql |-> Str(Head(output).Input), err |-> NilErr]
    ELSE IF IsRefusalCall(Head(output))
    THEN [sql |-> Str(Head(output).Input), err |-> RefusalOf(Head(output))]
    ELSE ScanOutput_InputWithRefusal(Tail(output))

\* ScanOutput treating an output without any call as a refusal.
RECURSIVE ScanOutput_SilenceIsRefusal(_)
ScanOutput_SilenceIsRefusal(output) ==
    IF output = <<>>
    THEN [sql |-> Str(""), err |-> ErrUnsupportedQuery(GenericReason)]
    ELSE IF IsSqlCall(Head(output))
    THEN [sql |-> Str(Head(output).Input), err |-> NilErr]
    ELSE IF IsRefusalCall(Head(output))
    THEN [sql |-> Str(""), err |-> RefusalOf(Head(output))]
    ELSE ScanOutput_SilenceIsRefusal(Tail(output))

\* The loop over result.Output: the first item that is a sql_generator
\* call or a cannot_answer call decides; none is an error.
RECURSIVE ScanOutput(_)
ScanOutput(output) ==
    IF output = <<>>
    THEN [sql |-> Str(""), err |-> Errorf(<<Str("no SQL generated in response")>>)]
    ELSE IF IsSqlCall(Head(output))
    THEN [sql |-> Str(Head(output).Input), err |-> NilErr]
    ELSE IF IsRefusalCall(Head(output))
    THEN [sql |-> Str(""), err |-> RefusalOf(Head(output))]
    ELSE ScanOutput(Tail(output))

\* The request reaches the service only past the schema check.
SchemaSet(c) == ~(c.grammar = <<>> \/ c.toolDescription = <<>>)

\* time.Time.Format("2006-01-02 15:04:05"): the wall-clock text of the
\* instant to the second; the fraction of a second is dropped.
FormatTime(t) == t.text

\* The request body: the prompt's three substitutions, and the two tools.
BuildRequest(c, naturalLanguage, currentTime) ==
    [input |-> <<FormatTime(currentTime), FormatTime(currentTime), naturalLanguage>>,
     grammar |-> c.grammar,
     description |-> c.toolDescription]

\* GenerateSQLWithTime, given the service's answer to its request.
GenerateSQLWithTime(c, naturalLanguage, currentTime, resp) ==
    IF ~SchemaSet(c)
    THEN [sql |-> Str(""),
          err |-> Errorf(<<Str("schema not set: call SetSchema before GenerateSQL")>>)]
    ELSE IF ~resp.doOk
    THEN [sql |-> Str(""), err |-> Errorf(<<Str("failed to execute request: ")>>)]
    ELSE IF ~resp.readOk
    THEN [sql |-> Str(""), err |-> Errorf(<<Str("failed to read response: ")>>)]
    ELSE IF resp.status # StatusOK
    THEN [sql |-> Str(""),
          err |-> Errorf(<<Str("openai error ("), Str(ToString(resp.status)),
                           Str("): "), Str(resp.raw)>>)]
    ELSE IF ~resp.parseOk
    THEN [sql |-> Str(""), err |-> Errorf(<<Str("failed to parse response: ")>>)]
    ELSE ScanOutput(resp.output)

NoRequest == [input |-> <<>>, grammar |-> <<>>, description |-> <<>>]

\* The request a call of GenerateSQLWithTime sends: none when the schema
\* is not set.
RequestSent(c, naturalLanguage, currentTime) ==
    IF SchemaSet(c) THEN BuildRequest(c, naturalLanguage, currentTime) ELSE NoRequest

\* GenerateSQL: the reference time is the wall clock read at the call.
GenerateSQL(c, naturalLanguage, now, resp) ==
    GenerateSQLWithTime(c, naturalLanguage, now, resp)

----------------------------------------------------------------------------
(* Query executor: TinybirdClient.ExecuteQuery *)

\* A *TinybirdResponse: the engine's reported row count and the row data
\* behind a pointer that is not nil.
Table(rows, data) == [nil |-> FALSE, Rows |-> rows, Data |-> data]

\* The nil *TinybirdResponse.
NoTable == [nil |-> TRUE, Rows |-> 0, Data |-> <<>>]

\* The engine's answer to a request that http.NewRequest could create:
\* did http.Do succeed, did io.ReadAll succeed, the status code, the body
\* text, did it unmarshal, and what it unmarshals to.
EngineAnswer(doOk, readOk, status, raw, parseOk, body) ==
    [reqOk |-> TRUE, doOk |-> doOk, readOk |-> readOk, status |-> status,
     raw |-> raw, parseOk |-> parseOk, body |-> body]

\* No answer, because http.NewRequest failed (the client's host does not
\* parse as a URL) and nothing was sent.
RequestNotCreated ==
    [EngineAnswer(FALSE, FALSE, 0, "", FALSE, NoTable) EXCEPT !.reqOk = FALSE]

\* ExecuteQuery decoding the body whatever the status.
ExecuteQuery_StatusUnchecked(sql, ans) ==
    IF ~ans.reqOk
    THEN [resp |-> NoTable, err |-> Errorf(<<Str("failed to create request: ")>>)]
    ELSE IF ~ans.doOk
    THEN [resp |-> NoTable, err |-> Errorf(<<Str("failed to execute request: ")>>)]
    ELSE IF ~ans.readOk
    THEN [resp |-> NoTable, err |-> Errorf(<<Str("failed to read response: ")>>)]
    ELSE IF ~ans.parseOk
    THEN [resp |-> NoTable, err |-> Errorf(<<Str("failed to parse response: ")>>)]
    ELSE [resp |-> ans.body, err |-> NilErr]

\* ExecuteQuery, given the engine's answer: [resp, err]; resp is NoTable
\* where the code returns a nil response.
ExecuteQuery(sql, ans) ==
    IF ~ans.reqOk
    THEN [resp |-> NoTable, err |-> Errorf(<<Str("failed to create request: ")>>)]
    ELSE IF ~ans.doOk
    THEN [resp |-> NoTable, err |-> Errorf(<<Str("failed to execute request: ")>>)]
    ELSE IF ~ans.readOk
    THEN [resp |-> NoTable, err |-> Errorf(<<Str("failed to read response: ")>>)]
    ELSE IF ans.status # StatusOK
    THEN [resp |-> NoTable,
          err |-> Errorf(<<Str("tinybird error ("), Str(ToString(ans.status)),
                           Str("): "), Str(ans.raw)>>)]
    ELSE IF ~ans.parseOk
    THEN [resp |-> NoTable, err |-> Errorf(<<Str("failed to parse response: ")>>)]
    ELSE [resp |-> ans.body, err |-> NilErr]

\* unicode.IsSpace on an ASCII character: tab, newline, vertical tab, form
\* feed, carriage return and space.
IsSpace(c) == c \in 9..13 \/ c = 32

RECURSIVE TrimLeftSpace(_)
TrimLeftSpace(s) ==
    IF s # <<>> /\ IsSpace(Head(s)) THEN TrimLeftSpace(Tail(s)) ELSE s

RECURSIVE TrimRightSpace(_)
TrimRightSpace(s) ==
    IF s # <<>> /\ IsSpace(s[Len(s)])
    THEN TrimRightSpace(SubSeq(s, 1, Len(s) - 1))
    ELSE s

\* strings.TrimSpace: leading and trailing white space removed.
TrimSpace(s) == TrimRightSpace(TrimLeftSpace(s))

\* strings.HasSuffix
HasSuffix(s, suffix) ==
    /\ Len(s) >= Len(suffix)
    /\ SubSeq(s, Len(s) - Len(suffix) + 1, Len(s)) = suffix

\* strings.TrimSuffix: s without the suffix when it ends with it, once.
TrimSuffix(s, suffix) ==
    IF HasSuffix(s, suffix) THEN SubSeq(s, 1, Len(s) - Len(suffix)) ELSE s

\* ";"
Semicolon == <<59>>

\* " FORMAT JSON"
FormatJSON == <<32, 70, 79, 82, 77, 65, 84, 32, 74, 83, 79, 78>>

\* The query ExecuteQuery builds for its sql argument (the q parameter of
\* the request, before URL escaping); it is dispatched when the request
\* can be created.
DispatchedQuery(sql) == TrimSuffix(TrimSpace(sql), Semicolon) \o FormatJSON

----------------------------------------------------------------------------
(* Verification harness: comparison of result sets *)

\* A decoded JSON scalar.  Numbers are float64; n counts units of 0.00001.
Num(n)    == [t |-> "num", n |-> n, s |-> ""]
StrVal(s) == [t |-> "str", n |-> 0, s |-> s]
Null      == [t |-> "null", n |-> 0, s |-> ""]

\* toFloat: the value as a float64 and whether it is numeric.
toFloat(v) == [f |-> IF v.t = "num" THEN v.n ELSE 0, ok |-> v.t = "num"]

Abs(x) == IF x < 0 THEN -x ELSE x

\* ---- float64 arithmetic on numbers that are not negative (IEEE 754,
\* round to nearest, ties to even).  A float64 above 0 is [m, e]: m is its
\* significand, Precision bits with the most significant (a 1) first, and
\* its value is m * 2^e.  Float64Zero is 0.
Precision == 53

Float64Zero == [m |-> <<>>, e |-> 0]

Zeros(k) == [i \in 1..k |-> 0]

RECURSIVE StripZeros(_)
StripZeros(bs) == IF bs # <<>> /\ Head(bs) = 0 THEN StripZeros(Tail(bs)) ELSE bs

PadLeft(bs, len) == Zeros(len - Len(bs)) \o bs

Longer(x, y) == IF Len(x) > Len(y) THEN Len(x) ELSE Len(y)

\* The binary digits of a natural number.
RECURSIVE Binary(_)
Binary(q) == IF q = 0 THEN <<>> ELSE Append(Binary(q \div 2), q % 2)

\* x < y of binary numbers; x + y and x - y (for x >= y) follow.
BitsLess(x, y) ==
    LET len == Longer(x, y)
        px  == PadLeft(x, len)
        py  == PadLeft(y, len)
    IN  \E i \in 1..len : px[i] < py[i] /\ \A j \in 1..(i - 1) : px[j] = py[j]

\* In x + y a carry enters position i when a position to its right holds
\* two 1s and every position between holds exactly one.
BitsAdd(x, y) ==
    LET len == Longer(x, y) + 1
        px  == PadLeft(x, len)
        py  == PadLeft(y, len)
        carry(i) == \E j \in (i + 1)..len :
                        /\ px[j] + py[j] = 2
                        /\ \A k \in (i + 1)..(j - 1) : px[k] + py[k] = 1
    IN  StripZeros([i \in 1..len |->
                       (px[i] + py[i] + (IF carry(i) THEN 1 ELSE 0)) % 2])

\* In x - y a borrow leaves position i when a position to its right holds
\* less in x than in y and every position between holds the same in both.
BitsSub(x, y) ==
    LET len == Longer(x, y)
        px  == PadLeft(x, len)
        py  == PadLeft(y, len)
        borrow(i) == \E j \in (i + 1)..len :
                         /\ px[j] < py[j]
                         /\ \A k \in (i + 1)..(j - 1) : px[k] = py[k]
    IN  StripZeros([i \in 1..len |->
                       (px[i] - py[i] - (IF borrow(i) THEN 1 ELSE 0) + 2) % 2])

\* x * y, by the digits of y from the last: the product with the digits
\* before it, doubled, plus x where the digit is 1.
RECURSIVE BitsMul(_, _)
BitsMul(x, y) ==
    IF y = <<>> THEN <<>>
    ELSE LET before  == BitsMul(x, SubSeq(y, 1, Len(y) - 1))
             doubled == IF before = <<>> THEN <<>> ELSE Append(before, 0)
         IN  IF y[Len(y)] = 1 THEN BitsAdd(doubled, x) ELSE doubled

\* Rounding to nearest, ties to even: the Precision bits kept and how the
\* part dropped compares with half a unit of the last bit kept.
RoundNearestEven(kept, e, dropped) ==
    IF dropped = "above" \/ (dropped = "half" /\ kept[Precision] = 1)
    THEN LET up == BitsAdd(kept, <<1>>)
         IN  IF Len(up) > Precision
             THEN [m |-> SubSeq(up, 1, Precision), e |-> e + 1]
             ELSE [m |-> up, e |-> e]
    ELSE [m |-> kept, e |-> e]

\* The float64 nearest to bs * 2^e, for a binary number bs > 0 without
\* leading zeros.
RoundBits(bs, e) ==
    IF Len(bs) <= Precision
    THEN [m |-> bs \o Zeros(Precision - Len(bs)), e |-> e - (Precision - Len(bs))]
    ELSE LET rest == SubSeq(bs, Precision + 1, Len(bs))
         IN  RoundNearestEven(SubSeq(bs, 1, Precision), e + Len(rest),
                              IF StripZeros(rest) = <<>> THEN "zero"
                              ELSE IF Head(rest) = 0 THEN "below"
                              ELSE IF StripZeros(Tail(rest)) = <<>> THEN "half"
                              ELSE "above")

\* A natural number below 2^54 in two limbs of 27 bits, for the long
\* division: its value is hi * 2^27 + lo.
LimbBits == 27
LimbBase == 2^LimbBits

RECURSIVE BitsValue(_)
BitsValue(bs) ==
    IF bs = <<>> THEN 0 ELSE 2 * BitsValue(SubSeq(bs, 1, Len(bs) - 1)) + bs[Len(bs)]

Limbs(bs) ==
    LET all == PadLeft(bs, 2 * LimbBits)
    IN  [hi |-> BitsValue(SubSeq(all, 1, LimbBits)),
         lo |-> BitsValue(SubSeq(all, LimbBits + 1, 2 * LimbBits))]

LimbsOf(n) == [hi |-> 0, lo |-> n]

LimbsLess(x, y) == x.hi < y.hi \/ (x.hi = y.hi /\ x.lo < y.lo)

LimbsDouble(x) ==
    [hi |-> 2 * x.hi + (2 * x.lo) \div LimbBase, lo |-> (2 * x.lo) % LimbBase]

\* x - y for x >= y.
LimbsSub(x, y) ==
    IF x.lo >= y.lo
    THEN [hi |-> x.hi - y.hi, lo |-> x.lo - y.lo]
    ELSE [hi |-> x.hi - y.hi - 1, lo |-> x.lo + LimbBase - y.lo]

\* Long division: bs holds the quotient's bits so far, r the remainder
\* (below the divisor d), and the quotient is (bs + r/d) * 2^e.  A bit is
\* produced per step until Precision bits are there; what is left of the
\* remainder decides the rounding.
RECURSIVE LongDivision(_, _, _, _)
LongDivision(bs, r, d, e) ==
    LET r2 == LimbsDouble(r)
    IN  IF Len(bs) = Precision
        THEN RoundNearestEven(bs, e,
                              IF r = LimbsOf(0) THEN "zero"
                              ELSE IF LimbsLess(r2, d) THEN "below"
                              ELSE IF r2 = d THEN "half"
                              ELSE "above")
        ELSE LET b == IF LimbsLess(r2, d) THEN 0 ELSE 1
             IN  LongDivision(IF bs = <<>> /\ b = 0 THEN <<>> ELSE Append(bs, b),
                              IF b = 1 THEN LimbsSub(r2, d) ELSE r2, d, e - 1)

\* The float64 a JSON number of n > 0 units of 0.00001 decodes to: the
\* float64 nearest to n / 100000.
UnitsPerOne == 100000
Float64FromUnits(n) ==
    LongDivision(Binary(n \div UnitsPerOne), LimbsOf(n % UnitsPerOne),
                 LimbsOf(UnitsPerOne), 0)

\* The constant 0.0001 as a float64.
Tolerance == Float64FromUnits(10)

\* x + y, x - y (for x > y) and x / y of float64s above 0.
Float64Add(x, y) ==
    LET e == IF x.e < y.e THEN x.e ELSE y.e
    IN  RoundBits(BitsAdd(x.m \o Zeros(x.e - e), y.m \o Zeros(y.e - e)), e)

Float64Sub(x, y) ==
    LET e == IF x.e < y.e THEN x.e ELSE y.e
    IN  RoundBits(BitsSub(x.m \o Zeros(x.e - e), y.m \o Zeros(y.e - e)), e)

\* Both significands have Precision bits, so the quotient is between 1/2
\* and 2.
Float64Quo(x, y) ==
    LET mx == Limbs(x.m)
        my == Limbs(y.m)
    IN  IF x = Float64Zero THEN Float64Zero
        ELSE IF LimbsLess(mx, my)
        THEN LongDivision(<<>>, mx, my, x.e - y.e)
        ELSE LongDivision(<<1>>, LimbsSub(mx, my), my, x.e - y.e)

\* float64(n) of an int n >= 0 (exact below 2^53) and x * y.
Float64FromInt(n) == IF n = 0 THEN Float64Zero ELSE RoundBits(Binary(n), 0)

\* The digits of a binary number above 0 up to its last 1.
Significant(bs) ==
    SubSeq(bs, 1, CHOOSE i \in 1..Len(bs) :
                      bs[i] = 1 /\ \A j \in (i + 1)..Len(bs) : bs[j] = 0)

\* The exact product of the significands, y's without its trailing zeros,
\* rounded.
Float64Mul(x, y) ==
    IF x = Float64Zero \/ y = Float64Zero THEN Float64Zero
    ELSE LET sy == Significant(y.m)
         IN  RoundBits(BitsMul(x.m, sy), x.e + y.e + (Len(y.m) - Len(sy)))

\* diff/avg < 0.0001 computed in float64, for two different numbers of the
\* same sign given by their magnitudes in units.
QuotientBelowTolerance(ua, ub) ==
    LET hi   == Float64FromUnits(IF ua > ub THEN ua ELSE ub)
        lo   == Float64FromUnits(IF ua > ub THEN ub ELSE ua)
        diff == Float64Sub(hi, lo)
        sum  == Float64Add(hi, lo)
        avg  == [m |-> sum.m, e |-> sum.e - 1]
        quo  == Float64Quo(diff, avg)
    IN  quo.e < Tolerance.e \/ (quo.e = Tolerance.e /\ BitsLess(quo.m, Tolerance.m))

\* valuesEqual: numbers are equal when identical or when their difference
\* relative to |average| is below 0.0001 (absolute when the average is 0);
\* anything else by reflect.DeepEqual.  diff / avg < 0.0001 is
\* 20000 * diff < sum in exact arithmetic, and the float64 quotient is
\* within 1e-11 of the exact one, while 20000 * diff and sum differ by at
\* least 1 part in sum < 2^32 unless they are equal: so the rounding
\* decides only when 20000 * diff = sum, and there the quotient is computed
\* in float64 as the code computes it.
valuesEqual(a, b) ==
    IF toFloat(a).ok /\ toFloat(b).ok
    THEN LET af   == toFloat(a).f
             bf   == toFloat(b).f
             diff == Abs(af - bf)
             sum  == Abs(af + bf)
         IN  IF af = bf THEN TRUE
             ELSE IF sum = 0 THEN diff < 10
             ELSE IF sum % 20000 = 0 /\ sum \div 20000 = diff
             THEN QuotientBelowTolerance(Abs(af), Abs(bf))
             ELSE diff <= (sum - 1) \div 20000
    ELSE a = b

\* rowEqual without the single-column rule: columns are always matched by
\* name.
rowEqual_ByNameOnly(a, b) ==
    IF Cardinality(DOMAIN a) # Cardinality(DOMAIN b) THEN FALSE
    ELSE \A k \in DOMAIN a : k \in DOMAIN b /\ valuesEqual(a[k], b[k])

\* rowEqual: a row is a map from column name to scalar.
rowEqual(a, b) ==
    IF Cardinality(DOMAIN a) = 1 /\ Cardinality(DOMAIN b) = 1
    THEN valuesEqual(a[CHOOSE k \in DOMAIN a : TRUE], b[CHOOSE k \in DOMAIN b : TRUE])
    ELSE IF Cardinality(DOMAIN a) # Cardinality(DOMAIN b) THEN FALSE
    ELSE \A k \in DOMAIN a : k \in DOMAIN b /\ valuesEqual(a[k], b[k])

\* dataEqual that looks for each row anywhere in the other result set.
dataEqual_AnyOrder(a, b) ==
    IF Len(a) # Len(b) THEN FALSE
    ELSE /\ \A i \in 1..Len(a) : \E j \in 1..Len(b) : rowEqual(a[i], b[j])
         /\ \A j \in 1..Len(b) : \E i \in 1..Len(a) : rowEqual(a[i], b[j])

\* dataEqual: same length and equal rows position by position.
dataEqual(a, b) ==
    IF Len(a) # Len(b) THEN FALSE
    ELSE \A i \in 1..Len(a) : rowEqual(a[i], b[i])

----------------------------------------------------------------------------
(* Verification harness: the eval cases and runEval *)

NoTime == [text |-> "", frac |-> 0]

\* An EvalCase; ReferenceTime is a pointer: set says whether it is non-nil.
EvalCase(name, query, expectedSQL, refSet, refTime, expectUnsupported) ==
    [Name |-> name, Query |-> query, ExpectedSQL |-> expectedSQL,
     ReferenceTime |-> [set |-> refSet, t |-> refTime],
     ExpectUnsupported |-> expectUnsupported]

fixedTime == [text |-> "2024-06-15 12:00:00", frac |-> 0]

DefaultEvalCases ==
    << EvalCase("count_all", "Count all items",
                "SELECT COUNT(*) FROM order_items;", FALSE, NoTime, FALSE),
       EvalCase("total_revenue", "What is the total revenue?",
                "SELECT SUM(price) FROM order_items;", FALSE, NoTime, FALSE),
       EvalCase("avg_shipping", "What is the average shipping cost?",
                "SELECT AVG(freight_value) FROM order_items;", FALSE, NoTime, FALSE),
       EvalCase("count_expensive", "How many items cost more than 100?",
                "SELECT COUNT(*) FROM order_items WHERE price > 100;", FALSE, NoTime, FALSE),
       EvalCase("revenue_last_7_days", "What is the total revenue from the last 7 days?",
                "SELECT SUM(price) FROM order_items WHERE shipping_limit_date > '2024-06-08 12:00:00';",
                TRUE, fixedTime, FALSE),
       EvalCase("unsupported_weather", "What's the weather like in Tokyo?",
                "", FALSE, NoTime, TRUE),
       EvalCase("unsupported_nonexistent_table", "How many customers are from California?",
                "", FALSE, NoTime, TRUE) >>

\* The zero EvalResult of make([]EvalResult, n).
ZeroResult ==
    [Name |-> "", Passed |-> FALSE, Query |-> "", ExpectedSQL |-> "",
     GeneratedSQL |-> <<>>, Error |-> <<>>]

\* runEval's initial result: name, query and reference SQL of the case.
NewResult(tc) ==
    [Name |-> tc.Name, Passed |-> FALSE, Query |-> tc.Query,
     ExpectedSQL |-> tc.ExpectedSQL, GeneratedSQL |-> <<>>, Error |-> <<>>]

\* runEval returning after the reference SQL failed.
ExpectedFailed(tc, err) ==
    [NewResult(tc) EXCEPT !.Error = Sprintf(<<Str("expected SQL failed: "), ErrorText(err)>>)]

\* runEval returning after generation failed (a refusal included).
GenerationFailed(tc, err) ==
    [NewResult(tc) EXCEPT !.Error = Sprintf(<<Str("generation failed: "), ErrorText(err)>>)]

\* CompareResult without the comparison of the reported row counts.
CompareResult_NoRowCount(tc, expected, generatedSQL, exec) ==
    LET result == [NewResult(tc) EXCEPT !.GeneratedSQL = generatedSQL]
    IN  IF exec.err # NilErr
        THEN [result EXCEPT !.Error =
                 Sprintf(<<Str("generated SQL failed: "), ErrorText(exec.err)>>)]
        ELSE IF ~dataEqual(expected.Data, exec.resp.Data)
        THEN [result EXCEPT !.Error = Str("data mismatch")]
        ELSE [result EXCEPT !.Passed = TRUE]

\* CompareResult leaving Error empty on a data mismatch.
CompareResult_SilentMismatch(tc, expected, generatedSQL, exec) ==
    LET result == [NewResult(tc) EXCEPT !.GeneratedSQL = generatedSQL]
    IN  IF exec.err # NilErr
        THEN [result EXCEPT !.Error =
                 Sprintf(<<Str("generated SQL failed: "), ErrorText(exec.err)>>)]
        ELSE IF expected.Rows # exec.resp.Rows
        THEN [result EXCEPT !.Error =
                 Sprintf(<<Str("row count: expected "), Str(ToString(expected.Rows)),
                           Str(", got "), Str(ToString(exec.resp.Rows))>>)]
        ELSE IF ~dataEqual(expected.Data, exec.resp.Data)
        THEN result
        ELSE [result EXCEPT !.Passed = TRUE]

\* runEval from the execution of the generated SQL to its return.
CompareResult(tc, expected, generatedSQL, exec) ==
    LET result == [NewResult(tc) EXCEPT !.GeneratedSQL = generatedSQL]
    IN  IF exec.err # NilErr
        THEN [result EXCEPT !.Error =
                 Sprintf(<<Str("generated SQL failed: "), ErrorText(exec.err)>>)]
        ELSE IF expected.Rows # exec.resp.Rows
        THEN [result EXCEPT !.Error =
                 Sprintf(<<Str("row count: expected "), Str(ToString(expected.Rows)),
                           Str(", got "), Str(ToString(exec.resp.Rows))>>)]
        ELSE IF ~dataEqual(expected.Data, exec.resp.Data)
        THEN [result EXCEPT !.Error = Str("data mismatch")]
        ELSE [result EXCEPT !.Passed = TRUE]

\* runUnsupportedEval passing on any error of the generation call.
runUnsupportedEval_AnyError(tc, gen) ==
    LET result == [Name |-> tc.Name, Passed |-> FALSE, Query |-> tc.Query,
                   ExpectedSQL |-> "(expected to be unsupported)",
                   GeneratedSQL |-> <<>>, Error |-> <<>>]
    IN  IF gen.err = NilErr
        THEN [result EXCEPT !.Error = Str("expected ErrUnsupportedQuery but got valid SQL")]
        ELSE [result EXCEPT !.GeneratedSQL =
                 Sprintf(<<Str("(refused: "), gen.err.msg, Str(")")>>),
                            !.Passed = TRUE]

\* runUnsupportedEval, given what the generation call returned.
runUnsupportedEval(tc, gen) ==
    LET result == [Name |-> tc.Name, Passed |-> FALSE, Query |-> tc.Query,
                   ExpectedSQL |-> "(expected to be unsupported)",
                   GeneratedSQL |-> <<>>, Error |-> <<>>]
    IN  IF gen.err = NilErr
        THEN [result EXCEPT !.Error = Str("expected ErrUnsupportedQuery but got valid SQL")]
        ELSE IF ~IsUnsupported(gen.err)
        THEN [result EXCEPT !.Error =
                 Sprintf(<<Str("expected ErrUnsupportedQuery but got: "), ErrorText(gen.err)>>)]
        ELSE [result EXCEPT !.GeneratedSQL =
                 Sprintf(<<Str("(refused: "), gen.err.msg, Str(")")>>),
                            !.Passed = TRUE]

\* runEval as a whole: the result of a case from the case and from what
\* its own calls returned (exec is read only when both earlier calls
\* succeeded, gen only when the reference SQL executed).
runEval(tc, exp, gen, exec) ==
    IF tc.ExpectUnsupported THEN runUnsupportedEval(tc, gen)
    ELSE IF exp.err # NilErr THEN ExpectedFailed(tc, exp.err)
    ELSE IF gen.err # NilErr THEN GenerationFailed(tc, gen.err)
    ELSE CompareResult(tc, exp.resp, gen.sql, exec)

\* The generation call of a case: with its ReferenceTime when it has one,
\* with the wall clock otherwise.
GenerateFor(c, tc, now, resp) ==
    IF tc.ReferenceTime.set
    THEN GenerateSQLWithTime(c, tc.Query, tc.ReferenceTime.t, resp)
    ELSE GenerateSQL(c, tc.Query, now, resp)

\* RequestOf reading the wall clock whatever the case says.
RequestOf_WallClock(c, tc, now) == RequestSent(c, tc.Query, now)

\* The request the generation call of a case sends: built for the case's
\* ReferenceTime when it has one, for the wall clock read by GenerateSQL
\* otherwise; none when the client's schema is not set.
RequestOf(c, tc, now) ==
    IF tc.ReferenceTime.set
    THEN RequestSent(c, tc.Query, tc.ReferenceTime.t)
    ELSE RequestSent(c, tc.Query, now)

\* FirstFailure without the break: the last failure wins.
RECURSIVE FirstFailure_NoBreak(_)
FirstFailure_NoBreak(rs) ==
    IF rs = <<>> THEN NilErr
    ELSE IF FirstFailure_NoBreak(Tail(rs)) # NilErr THEN FirstFailure_NoBreak(Tail(rs))
    ELSE IF ~Head(rs).Passed
    THEN Errorf(<<Str("eval "), Str(Head(rs).Name), Str(" failed: "), Head(rs).Error>>)
    ELSE NilErr

\* The scan after the barrier: the error for the first result in index
\* order that did not pass, nil when all passed.
RECURSIVE FirstFailure(_)
FirstFailure(rs) ==
    IF rs = <<>> THEN NilErr
    ELSE IF ~Head(rs).Passed
    THEN Errorf(<<Str("eval "), Str(Head(rs).Name), Str(" failed: "), Head(rs).Error>>)
    ELSE FirstFailure(Tail(rs))

----------------------------------------------------------------------------
(* Verification harness: ComputeSummary *)

RECURSIVE CountPassed(_)
CountPassed(rs) ==
    IF rs = <<>> THEN 0
    ELSE (IF Head(rs).Passed THEN 1 ELSE 0) + CountPassed(Tail(rs))

RECURSIVE CountFailed(_)
CountFailed(rs) ==
    IF rs = <<>> THEN 0
    ELSE (IF Head(rs).Passed THEN 0 ELSE 1) + CountFailed(Tail(rs))

\* ComputeSummary with the pass rate left a fraction of one.
ComputeSummary_Fraction(rs) ==
    [Total |-> Len(rs), Passed |-> CountPassed(rs), Failed |-> CountFailed(rs),
     PassRate |-> IF Len(rs) > 0
                  THEN Float64Quo(Float64FromInt(CountPassed(rs)), Float64FromInt(Len(rs)))
                  ELSE Float64Zero]

\* ComputeSummary.  PassRate is float64(Passed) / float64(Total) * 100 in
\* float64 arithmetic, the quotient rounded and then the product; it
\* stays 0 for no result.
ComputeSummary(rs) ==
    [Total |-> Len(rs), Passed |-> CountPassed(rs), Failed |-> CountFailed(rs),
     PassRate |-> IF Len(rs) > 0
                  THEN Float64Mul(Float64Quo(Float64FromInt(CountPassed(rs)),
                                             Float64FromInt(Len(rs))),
                                  Float64FromInt(100))
                  ELSE Float64Zero]

----------------------------------------------------------------------------
(* Query endpoint: Handler *)

\* What a call that was not made returned.
NoExec == [resp |-> NoTable, err |-> NilErr]
NoGen  == [sql |-> <<>>, err |-> NilErr]

\* QueryResponse{}: the zero value of the response body.
QueryResponse == [SQL |-> <<>>, Data |-> <<>>, Rows |-> 0, Error |-> <<>>]

\* A request and what the handler's calls meet while serving it: the
\* method, whether the body decodes and the query it holds, whether
\* LoadConfig and FetchSchema succeed and the schema fetched, the wall
\* clock, the generation service's answer and the engine's answer.
HandlerRequest(method, bodyOk, query, cfgOk, schemaOk, s, now, resp, ans) ==
    [Method |-> method, bodyOk |-> bodyOk, Query |-> query, cfgOk |-> cfgOk,
     schemaOk |-> schemaOk, schema |-> s, now |-> now, resp |-> resp, ans |-> ans]

NoHandlerReq ==
    HandlerRequest("", FALSE, "", FALSE, FALSE, <<>>, [text |-> "", frac |-> 0], NoResponse,
                   EngineAnswer(FALSE, FALSE, 0, "", FALSE, NoTable))
\* The calls made while serving: what they returned, how many they were,
\* the request the generation call sent, and the steps taken from the
\* schema fetch on, in order.
NoHandlerCalls ==
    [gen |-> NoGen, exec |-> NoExec, nGen |-> 0, nExec |-> 0,
     req |-> NoRequest, steps |-> <<>>]
NoHandlerResp  == [status |-> 0, encoded |-> FALSE, body |-> QueryResponse]

StatusBadRequest          == 400
StatusMethodNotAllowed    == 405
StatusInternalServerError == 500

\* w.WriteHeader(status) and nothing else.
HeaderOnly(status) == [status |-> status, encoded |-> FALSE, body |-> QueryResponse]

\* w.WriteHeader(status), or the implicit 200 of the first write, and
\* json.NewEncoder(w).Encode(body).
Encoded(status, body) == [status |-> status, encoded |-> TRUE, body |-> body]

\* Handler answering a refusal like any other generation error.
Handler_RefusalAsServerError(r) ==
    LET none    == NoHandlerCalls
        fetched == [none EXCEPT !.steps = <<"FetchSchema">>]
        c       == SetSchema(NewOpenAIClient, r.schema)
        gen     == GenerateSQL(c, r.Query, r.now, r.resp)
        exec    == ExecuteQuery(gen.sql, r.ans)
        g       == [none EXCEPT !.gen = gen, !.nGen = 1,
                                !.req = RequestSent(c, r.Query, r.now),
                                !.steps = <<"FetchSchema", "SetSchema", "GenerateSQL">>]
        ge      == [g EXCEPT !.exec = exec, !.nExec = 1,
                             !.steps = Append(@, "ExecuteQuery")]
    IN  IF r.Method = "OPTIONS"
        THEN [resp |-> HeaderOnly(StatusOK), calls |-> none]
        ELSE IF r.Method # "POST"
        THEN [resp |-> Encoded(StatusMethodNotAllowed,
                               [QueryResponse EXCEPT !.Error = Str("method not allowed")]),
              calls |-> none]
        ELSE IF ~r.cfgOk
        THEN [resp |-> Encoded(StatusInternalServerError,
                               [QueryResponse EXCEPT !.Error = Str("server configuration error")]),
              calls |-> none]
        ELSE IF ~r.bodyOk
        THEN [resp |-> Encoded(StatusBadRequest,
                               [QueryResponse EXCEPT !.Error = Str("invalid request body")]),
              calls |-> none]
        ELSE IF r.Query = ""
        THEN [resp |-> Encoded(StatusBadRequest,
                               [QueryResponse EXCEPT !.Error = Str("query is required")]),
              calls |-> none]
        ELSE IF ~r.schemaOk
        THEN [resp |-> Encoded(StatusInternalServerError,
                               [QueryResponse EXCEPT !.Error = Str("failed to fetch schema")]),
              calls |-> fetched]
        ELSE IF gen.err # NilErr
        THEN IF IsUnsupported(gen.err)
             THEN [resp |-> Encoded(StatusInternalServerError,
                                    [QueryResponse EXCEPT !.Error = gen.err.msg]),
                   calls |-> g]
             ELSE [resp |-> Encoded(StatusInternalServerError,
                                    [QueryResponse EXCEPT !.Error = ErrorText(gen.err)]),
                   calls |-> g]
        ELSE IF exec.err # NilErr
        THEN [resp |-> Encoded(StatusInternalServerError,
                               [QueryResponse EXCEPT !.SQL = gen.sql,
                                                     !.Error = ErrorText(exec.err)]),
              calls |-> ge]
        ELSE [resp |-> Encoded(StatusOK,
                               [QueryResponse EXCEPT !.SQL = gen.sql,
                                                     !.Data = exec.resp.Data,
                                                     !.Rows = exec.resp.Rows]),
              calls |-> ge]

\* Handler calling the generator before it hands it the schema.
Handler_GenerateBeforeSetSchema(r) ==
    LET none    == NoHandlerCalls
        fetched == [none EXCEPT !.steps = <<"FetchSchema">>]
        c       == NewOpenAIClient
        gen     == GenerateSQL(c, r.Query, r.now, r.resp)
        exec    == ExecuteQuery(gen.sql, r.ans)
        g       == [none EXCEPT !.gen = gen, !.nGen = 1,
                                !.req = RequestSent(c, r.Query, r.now),
                                !.steps = <<"FetchSchema", "GenerateSQL", "SetSchema">>]
        ge      == [g EXCEPT !.exec = exec, !.nExec = 1,
                             !.steps = Append(@, "ExecuteQuery")]
    IN  IF r.Method = "OPTIONS"
        THEN [resp |-> HeaderOnly(StatusOK), calls |-> none]
        ELSE IF r.Method # "POST"
        THEN [resp |-> Encoded(StatusMethodNotAllowed,
                               [QueryResponse EXCEPT !.Error = Str("method not allowed")]),
              calls |-> none]
        ELSE IF ~r.cfgOk
        THEN [resp |-> Encoded(StatusInternalServerError,
                               [QueryResponse EXCEPT !.Error = Str("server configuration error")]),
              calls |-> none]
        ELSE IF ~r.bodyOk
        THEN [resp |-> Encoded(StatusBadRequest,
                               [QueryResponse EXCEPT !.Error = Str("invalid request body")]),
              calls |-> none]
        ELSE IF r.Query = ""
        THEN [resp |-> Encoded(StatusBadRequest,
                               [QueryResponse EXCEPT !.Error = Str("query is required")]),
              calls |-> none]
        ELSE IF ~r.schemaOk
        THEN [resp |-> Encoded(StatusInternalServerError,
                               [QueryResponse EXCEPT !.Error = Str("failed to fetch schema")]),
              calls |-> fetched]
        ELSE IF gen.err # NilErr
        THEN IF IsUnsupported(gen.err)
             THEN [resp |-> Encoded(StatusBadRequest,
                                    [QueryResponse EXCEPT !.Error = gen.err.msg]),
                   calls |-> g]
             ELSE [resp |-> Encoded(StatusInternalServerError,
                                    [QueryResponse EXCEPT !.Error = ErrorText(gen.err)]),
                   calls |-> g]
        ELSE IF exec.err # NilErr
        THEN [resp |-> Encoded(StatusInternalServerError,
                               [QueryResponse EXCEPT !.SQL = gen.sql,
                                                     !.Error = ErrorText(exec.err)]),
              calls |-> ge]
        ELSE [resp |-> Encoded(StatusOK,
                               [QueryResponse EXCEPT !.SQL = gen.sql,
                                                     !.Data = exec.resp.Data,
                                                     !.Rows = exec.resp.Rows]),
              calls |-> ge]

\* Handler going on with whatever FetchSchema returned when it failed.
Handler_FetchFailureIgnored(r) ==
    LET none    == NoHandlerCalls
        fetched == [none EXCEPT !.steps = <<"FetchSchema">>]
        c       == SetSchema(NewOpenAIClient, r.schema)
        gen     == GenerateSQL(c, r.Query, r.now, r.resp)
        exec    == ExecuteQuery(gen.sql, r.ans)
        g       == [none EXCEPT !.gen = gen, !.nGen = 1,
                                !.req = RequestSent(c, r.Query, r.now),
                                !.steps = <<"FetchSchema", "SetSchema", "GenerateSQL">>]
        ge      == [g EXCEPT !.exec = exec, !.nExec = 1,
                             !.steps = Append(@, "ExecuteQuery")]
    IN  IF r.Method = "OPTIONS"
        THEN [resp |-> HeaderOnly(StatusOK), calls |-> none]
        ELSE IF r.Method # "POST"
        THEN [resp |-> Encoded(StatusMethodNotAllowed,
                               [QueryResponse EXCEPT !.Error = Str("method not allowed")]),
              calls |-> none]
        ELSE IF ~r.cfgOk
        THEN [resp |-> Encoded(StatusInternalServerError,
                               [QueryResponse EXCEPT !.Error = Str("server configuration error")]),
              calls |-> none]
        ELSE IF ~r.bodyOk
        THEN [resp |-> Encoded(StatusBadRequest,
                               [QueryResponse EXCEPT !.Error = Str("invalid request body")]),
              calls |-> none]
        ELSE IF r.Query = ""
        THEN [resp |-> Encoded(StatusBadRequest,
                               [QueryResponse EXCEPT !.Error = Str("query is required")]),
              calls |-> none]
        ELSE IF gen.err # NilErr
        THEN IF IsUnsupported(gen.err)
             THEN [resp |-> Encoded(StatusBadRequest,
                                    [QueryResponse EXCEPT !.Error = gen.err.msg]),
                   calls |-> g]
             ELSE [resp |-> Encoded(StatusInternalServerError,
                                    [QueryResponse EXCEPT !.Error = ErrorText(gen.err)]),
                   calls |-> g]
        ELSE IF exec.err # NilErr
        THEN [resp |-> Encoded(StatusInternalServerError,
                               [QueryResponse EXCEPT !.SQL = gen.sql,
                                                     !.Error = ErrorText(exec.err)]),
              calls |-> ge]
        ELSE [resp |-> Encoded(StatusOK,
                               [QueryResponse EXCEPT !.SQL = gen.sql,
                                                     !.Data = exec.resp.Data,
                                                     !.Rows = exec.resp.Rows]),
              calls |-> ge]

\* Handler: the response written and the calls made for the request r.
Handler(r) ==
    LET none    == NoHandlerCalls
        fetched == [none EXCEPT !.steps = <<"FetchSchema">>]
        c       == SetSchema(NewOpenAIClient, r.schema)
        gen     == GenerateSQL(c, r.Query, r.now, r.resp)
        exec    == ExecuteQuery(gen.sql, r.ans)
        g       == [none EXCEPT !.gen = gen, !.nGen = 1,
                                !.req = RequestSent(c, r.Query, r.now),
                                !.steps = <<"FetchSchema", "SetSchema", "GenerateSQL">>]
        ge      == [g EXCEPT !.exec = exec, !.nExec = 1,
                             !.steps = Append(@, "ExecuteQuery")]
    IN  IF r.Method = "OPTIONS"
        THEN [resp |-> HeaderOnly(StatusOK), calls |-> none]
        ELSE IF r.Method # "POST"
        THEN [resp |-> Encoded(StatusMethodNotAllowed,
                               [QueryResponse EXCEPT !.Error = Str("method not allowed")]),
              calls |-> none]
        ELSE IF ~r.cfgOk
        THEN [resp |-> Encoded(StatusInternalServerError,
                               [QueryResponse EXCEPT !.Error = Str("server configuration error")]),
              calls |-> none]
        ELSE IF ~r.bodyOk
        THEN [resp |-> Encoded(StatusBadRequest,
                               [QueryResponse EXCEPT !.Error = Str("invalid request body")]),
              calls |-> none]
        ELSE IF r.Query = ""
        THEN [resp |-> Encoded(StatusBadRequest,
                               [QueryResponse EXCEPT !.Error = Str("query is required")]),
              calls |-> none]
        ELSE IF ~r.schemaOk
        THEN [resp |-> Encoded(StatusInternalServerError,
                               [QueryResponse EXCEPT !.Error = Str("failed to fetch schema")]),
              calls |-> fetched]
        ELSE IF gen.err # NilErr
        THEN IF IsUnsupported(gen.err)
             THEN [resp |-> Encoded(StatusBadRequest,
                                    [QueryResponse EXCEPT !.Error = gen.err.msg]),
                   calls |-> g]
             ELSE [resp |-> Encoded(StatusInternalServerError,
                                    [QueryResponse EXCEPT !.Error = ErrorText(gen.err)]),
                   calls |-> g]
        ELSE IF exec.err # NilErr
        THEN [resp |-> Encoded(StatusInternalServerError,
                               [QueryResponse EXCEPT !.SQL = gen.sql,
                                                     !.Error = ErrorText(exec.err)]),
              calls |-> ge]
        ELSE [resp |-> Encoded(StatusOK,
                               [QueryResponse EXCEPT !.SQL = gen.sql,
                                                     !.Data = exec.resp.Data,
                                                     !.Rows = exec.resp.Rows]),
              calls |-> ge]

----------------------------------------------------------------------------
(* Eval endpoint: api/eval's Handler *)

\* A request to the eval endpoint and what serving it meets: the method,
\* whether LoadConfig succeeds and whether FetchSchema succeeds.
ApiRequest(method, cfgOk, schemaOk) ==
    [Method |-> method, cfgOk |-> cfgOk, schemaOk |-> schemaOk]

NoApiReq == ApiRequest("", FALSE, FALSE)

\* What the eval endpoint wrote: the status, whether a body was encoded,
\* its "error", and, when RunEvals ran, "passed", "results" and "summary".
NoApiResp ==
    [status |-> 0, encoded |-> FALSE, error |-> <<>>, ran |-> FALSE,
     passed |-> FALSE, results |-> <<>>, summary |-> ComputeSummary(<<>>)]

\* w.WriteHeader(status) and nothing else.
ApiHeaderOnly(status) == [NoApiResp EXCEPT !.status = status]

\* w.WriteHeader(status) and the body {"error": msg}.
ApiError(status, msg) ==
    [NoApiResp EXCEPT !.status = status, !.encoded = TRUE, !.error = Str(msg)]

\* The body written after RunEvals returned (rs, evalErr), under the
\* implicit status 200.
ApiReport(rs, evalErr) ==
    [status |-> StatusOK, encoded |-> TRUE,
     error |-> IF evalErr # NilErr THEN ErrorText(evalErr) ELSE <<>>,
     ran |-> TRUE, passed |-> evalErr = NilErr,
     results |-> rs, summary |-> ComputeSummary(rs)]

----------------------------------------------------------------------------
(* Scalar comparison: the record of a call *)

NoComparison == [a |-> Null, b |-> Null, out |-> FALSE, made |-> FALSE]

----------------------------------------------------------------------------
(* Inputs of the generator's specification *)

\* "t" with one column "b", and the schema of an empty catalog.
SampleSchemas ==
    { << [Name |-> <<116>>, Columns |-> << [Name |-> <<98>>, Type |-> "Float64"] >>] >>,
      <<>> }

\* Instants the wall clock may show; two of them within the same second.
WallClock ==
    { [text |-> "2026-03-01 09:30:00", frac |-> 0],
      [text |-> "2026-03-01 09:30:00", frac |-> 5],
      [text |-> "2026-03-01 09:30:01", frac |-> 0] }

Queries == { "Count all items", "What's the weather like in Tokyo?" }

----------------------------------------------------------------------------
(* Specification of the generator: SetSchema, then one generation call *)

GenParked ==
    /\ genPc = "idle"
    /\ genClient = NewOpenAIClient
    /\ genReq = NoRequest
    /\ genResp = NoResponse
    /\ genResult = [sql |-> <<>>, err |-> NilErr]

GramParked ==
    /\ gramPc = "idle"
    /\ schema = <<>>
    /\ grammar = <<>>
    /\ grammar2 = <<>>

EvalParked ==
    /\ cases = <<>>
    /\ results = <<>>
    /\ task = <<>>
    /\ wg = 0
    /\ mainPc = "idle"
    /\ firstErr = NilErr
    /\ firstDone = 0
    /\ slotLog = <<>>

SumParked ==
    /\ sumPc = "idle"
    /\ sumIn = <<>>
    /\ sumOut = [Total |-> 0, Passed |-> 0, Failed |-> 0, PassRate |-> Float64Zero]

NoAnswer == EngineAnswer(FALSE, FALSE, 0, "", FALSE, NoTable)

ExecParked ==
    /\ execPc = "idle"
    /\ execSql = <<>>
    /\ execQuery = <<>>
    /\ execAns = NoAnswer
    /\ execResult = NoExec

HandlerParked ==
    /\ handlerPc = "idle"
    /\ handlerReq = NoHandlerReq
    /\ handlerCalls = NoHandlerCalls
    /\ handlerResp = NoHandlerResp

CheckParked ==
    /\ checkPc = "main"
    /\ checkEnv = [cfgOk |-> FALSE, schemaOk |-> FALSE]
    /\ exitCode = 0
    /\ buildLog = ""
    /\ checkSteps = <<>>

ApiParked ==
    /\ apiPc = "idle"
    /\ apiReq = NoApiReq
    /\ apiSteps = <<>>
    /\ apiResp = NoApiResp

CmpParked ==
    /\ cmpPc = "first"
    /\ cmpIn = <<Null, Null>>
    /\ cmpOut = FALSE
    /\ cmpPrev = NoComparison

GenInit ==
    /\ GenParked /\ GramParked /\ EvalParked /\ SumParked
    /\ ExecParked /\ HandlerParked /\ ApiParked /\ CmpParked /\ CheckParked

\* openai.SetSchema(schema), as every caller does before generating.
GenSetSchema(s) ==
    /\ genPc = "idle"
    /\ genClient' = SetSchema(genClient, s)
    /\ UNCHANGED <<genPc, genReq, genResp, genResult>>
    /\ UNCHANGED <<gramVars, evalVars, sumVars, execVars, handlerVars, cmpVars, checkVars, apiVars>>

\* One call of GenerateSQLWithTime; resp is the service's answer, used
\* only when the request is sent.
GenCall(naturalLanguage, currentTime, resp) ==
    /\ genPc = "idle"
    /\ genReq' = IF SchemaSet(genClient)
                 THEN BuildRequest(genClient, naturalLanguage, currentTime)
                 ELSE NoRequest
    /\ genResp' = IF SchemaSet(genClient) THEN resp ELSE NoResponse
    /\ genResult' = GenerateSQLWithTime(genClient, naturalLanguage, currentTime, resp)
    /\ genPc' = "done"
    /\ UNCHANGED genClient
    /\ UNCHANGED <<gramVars, evalVars, sumVars, execVars, handlerVars, cmpVars, checkVars, apiVars>>

GenNext ==
    \/ \E s \in SampleSchemas : GenSetSchema(s)
    \/ \E q \in Queries, t \in WallClock \cup {fixedTime}, resp \in ServiceResponses :
          GenCall(q, t, resp)

SpecGen == GenInit /\ [][GenNext]_vars

----------------------------------------------------------------------------
(* Inputs of the harness's specifications *)

\* The number of eval cases the concurrent run is checked with.
NumCases == 3

\* The cases are taken from DefaultEvalCases in this order of preference,
\* so that a short list holds a plain case, a case with a ReferenceTime
\* and an expect-unsupported case; the list keeps the order of the source.
CaseOrder == <<1, 6, 5, 2, 7, 3, 4>>

RECURSIVE Keep(_, _, _)
Keep(seq, picked, i) ==
    IF i > Len(seq) THEN <<>>
    ELSE (IF i \in picked THEN <<seq[i]>> ELSE <<>>) \o Keep(seq, picked, i + 1)

ChosenCases(n) == Keep(DefaultEvalCases, { CaseOrder[k] : k \in 1..n }, 1)

\* The client after SetSchema on the sample schema.
ReadyClient ==
    SetSchema(NewOpenAIClient,
              << [Name |-> <<116>>, Columns |-> << [Name |-> <<98>>, Type |-> "Float64"] >>] >>)

Row1(k, v)         == [x \in {k} |-> v]
Row2(k1, v1, k2, v2) == [x \in {k1, k2} |-> IF x = k1 THEN v1 ELSE v2]

OkAnswer(rows, data) ==
    EngineAnswer(TRUE, TRUE, StatusOK, "{\"data\":[...]}", TRUE, Table(rows, data))

\* Engine answers of the concurrent run: a rejection and a one-row table.
RunEngineAnswers ==
    { EngineAnswer(TRUE, TRUE, 400, "syntax error", FALSE, NoTable),
      OkAnswer(1, <<Row1("count()", Num(500000))>>) }

\* Service answers of the concurrent run: a transport failure, SQL and a
\* refusal.
RunServiceResponses ==
    { Response(FALSE, FALSE, 0, "", FALSE, <<>>),
      Response(TRUE, TRUE, StatusOK, "{\"output\":[...]}", TRUE,
               << [Type |-> "custom_tool_call", Name |-> "sql_generator",
                   Input |-> "SELECT COUNT(*) FROM order_items;"] >>),
      Response(TRUE, TRUE, StatusOK, "{\"output\":[...]}", TRUE, <<RefusalItem>>) }

\* The wall clock of the concurrent run shows one instant.
RunClock == { [text |-> "2026-03-01 09:30:00", frac |-> 0] }

\* Engine answers of the single-case run: every failure of ExecuteQuery and
\* tables that differ in reported count, in length, in row order, in column
\* name and by less or more than the tolerance.
CaseEngineAnswers ==
    { EngineAnswer(FALSE, FALSE, 0, "", FALSE, NoTable),
      EngineAnswer(TRUE, FALSE, StatusOK, "", FALSE, NoTable),
      EngineAnswer(TRUE, TRUE, 400, "syntax error", FALSE, NoTable),
      EngineAnswer(TRUE, TRUE, StatusOK, "<html>", FALSE, NoTable),
      OkAnswer(0, <<>>),
      OkAnswer(1, <<Row1("sum(price)", Num(10000001))>>),
      OkAnswer(1, <<Row1("total", Num(10000002))>>),
      OkAnswer(1, <<Row1("sum(price)", Num(200000))>>),
      OkAnswer(2, <<Row1("sum(price)", Num(200000))>>),
      OkAnswer(2, <<Row2("k", StrVal("x"), "v", Num(100000)),
                    Row2("k", StrVal("y"), "v", Num(200000))>>),
      OkAnswer(2, <<Row2("k", StrVal("y"), "v", Num(200000)),
                    Row2("k", StrVal("x"), "v", Num(100000))>>) }

----------------------------------------------------------------------------
(* Specification of the harness: RunEvals and its per-case goroutines *)

\* A goroutine before `go`: its position, what its calls returned (exp,
\* gen, exec), how many calls it made, how often it called wg.Done (nDone),
\* the wall clock at its generation
\* call and the request that call sent, and the value runEval returned.
NewTask ==
    [pc |-> "unspawned", exp |-> NoExec, gen |-> NoGen, exec |-> NoExec,
     nExec |-> 0, nGen |-> 0, nDone |-> 0, now |-> NoTime, req |-> NoRequest,
     result |-> ZeroResult]

\* RunEvals up to the loop: the case list and the pre-sized result array.
EvalStart(cs) ==
    /\ cases = cs
    /\ results = [i \in 1..Len(cs) |-> ZeroResult]
    /\ task = [i \in 1..Len(cs) |-> NewTask]
    /\ wg = 0
    /\ mainPc = "spawn"
    /\ firstErr = NilErr
    /\ firstDone = 0
    /\ slotLog = [i \in 1..Len(cs) |-> <<>>]

Unspawned == { i \in 1..Len(cases) : task[i].pc = "unspawned" }

\* SlotOf appending to the results in order of completion.
SlotOf_CompletionOrder(idx) ==
    Cardinality({ j \in 1..Len(cases) : task[j].pc \in {"written", "done"} }) + 1

\* SlotOf when every goroutine writes through the same index.
SlotOf_Shared(idx) == 1

\* The slot of the result array the goroutine of case idx writes.
SlotOf(idx) == idx

\* An access to a slot of the result array: by the goroutine of a case, or
\* by the routine that called RunEvals (MainRoutine).
MainRoutine == 0
Access(op, by) == [op |-> op, by |-> by]

\* The slots the scan reads: every slot up to the first failed result.
ScannedSlots(rs) == { i \in 1..Len(rs) : \A j \in 1..(i - 1) : rs[j].Passed }

\* WaitReturns as soon as one goroutine has finished.
WaitReturns_AnyDone(counter) == counter < Len(cases)

\* wg.Wait() returns when the counter is zero.
WaitReturns(counter) == counter = 0

\* One iteration of the loop: wg.Add(1) and `go func(idx, tc)`.
Spawn ==
    /\ mainPc = "spawn"
    /\ Unspawned # {}
    /\ LET idx == CHOOSE i \in Unspawned : \A j \in Unspawned : i <= j
       IN  /\ wg' = wg + 1
           /\ task' = [task EXCEPT ![idx].pc = "start"]
    /\ UNCHANGED <<cases, results, mainPc, firstErr, firstDone, slotLog>>
    /\ UNCHANGED <<genVars, gramVars, sumVars, execVars, handlerVars, cmpVars, checkVars, apiVars>>

\* wg.Wait() after the loop.
Wait ==
    /\ mainPc = "spawn"
    /\ Unspawned = {}
    /\ WaitReturns(wg)
    /\ mainPc' = "joined"
    /\ UNCHANGED <<cases, results, task, wg, firstErr, firstDone, slotLog>>
    /\ UNCHANGED <<genVars, gramVars, sumVars, execVars, handlerVars, cmpVars, checkVars, apiVars>>

\* The scan for the first failure, and the return.
Scan ==
    /\ mainPc = "joined"
    /\ firstErr' = FirstFailure(results)
    /\ slotLog' = [i \in 1..Len(results) |->
                     IF i \in ScannedSlots(results)
                     THEN Append(slotLog[i], Access("read", MainRoutine))
                     ELSE slotLog[i]]
    /\ mainPc' = "returned"
    /\ UNCHANGED <<cases, results, task, wg, firstDone>>
    /\ UNCHANGED <<genVars, gramVars, sumVars, execVars, handlerVars, cmpVars, checkVars, apiVars>>

\* runEval has returned r in the goroutine of case idx: results[idx] = r.
Finish(idx, t, r) ==
    /\ task' = [task EXCEPT ![idx] = [t EXCEPT !.pc = "written", !.result = r]]
    /\ results' = [results EXCEPT ![SlotOf(idx)] = r]
    /\ slotLog' = [slotLog EXCEPT ![SlotOf(idx)] = Append(@, Access("write", idx))]
    /\ firstDone' = IF firstDone = 0 THEN idx ELSE firstDone
    /\ UNCHANGED <<cases, wg, mainPc, firstErr>>
    /\ UNCHANGED <<genVars, gramVars, sumVars, execVars, handlerVars, cmpVars, checkVars, apiVars>>

\* A step of runEval that does not return yet.
Continue(idx, t) ==
    /\ task' = [task EXCEPT ![idx] = t]
    /\ UNCHANGED <<cases, results, wg, mainPc, firstErr, firstDone, slotLog>>
    /\ UNCHANGED <<genVars, gramVars, sumVars, execVars, handlerVars, cmpVars, checkVars, apiVars>>

\* RunExpected trying the reference SQL again when it failed.
RunExpected_Retry(idx, ans) ==
    /\ task[idx].pc = "start"
    /\ ~cases[idx].ExpectUnsupported
    /\ LET exp == ExecuteQuery(cases[idx].ExpectedSQL, ans)
           t   == [task[idx] EXCEPT !.exp = exp, !.nExec = @ + 1]
       IN  IF exp.err # NilErr
           THEN Continue(idx, t)
           ELSE Continue(idx, [t EXCEPT !.pc = "generate"])

\* RunExpected executing the reference SQL of every case, the
\* expect-unsupported ones included.
RunExpected_AnyCase(idx, ans) ==
    /\ task[idx].pc = "start"
    /\ LET exp == ExecuteQuery(cases[idx].ExpectedSQL, ans)
           t   == [task[idx] EXCEPT !.exp = exp, !.nExec = @ + 1]
       IN  IF exp.err # NilErr
           THEN Finish(idx, t, ExpectedFailed(cases[idx], exp.err))
           ELSE Continue(idx, [t EXCEPT !.pc = "generate"])

\* runEval of a normal case up to the reference SQL's execution.
RunExpected(idx, ans) ==
    /\ task[idx].pc = "start"
    /\ ~cases[idx].ExpectUnsupported
    /\ LET exp == ExecuteQuery(cases[idx].ExpectedSQL, ans)
           t   == [task[idx] EXCEPT !.exp = exp, !.nExec = @ + 1]
       IN  IF exp.err # NilErr
           THEN Finish(idx, t, ExpectedFailed(cases[idx], exp.err))
           ELSE Continue(idx, [t EXCEPT !.pc = "generate"])

\* runEval from there up to the generation call.
RunGenerate(idx, now, resp) ==
    /\ task[idx].pc = "generate"
    /\ LET gen == GenerateFor(ReadyClient, cases[idx], now, resp)
           t   == [task[idx] EXCEPT !.gen = gen, !.nGen = @ + 1, !.now = now,
                                    !.req = RequestOf(ReadyClient, cases[idx], now)]
       IN  IF gen.err # NilErr
           THEN Finish(idx, t, GenerationFailed(cases[idx], gen.err))
           ELSE Continue(idx, [t EXCEPT !.pc = "execute"])

\* runEval from there to its return: the generated SQL's execution and the
\* comparison.
RunExecute(idx, ans) ==
    /\ task[idx].pc = "execute"
    /\ LET exec == ExecuteQuery(task[idx].gen.sql, ans)
           t    == [task[idx] EXCEPT !.exec = exec, !.nExec = @ + 1]
       IN  Finish(idx, t, CompareResult(cases[idx], task[idx].exp.resp, task[idx].gen.sql, exec))

\* runEval of an expect-unsupported case: runUnsupportedEval.
RunUnsupported(idx, now, resp) ==
    /\ task[idx].pc = "start"
    /\ cases[idx].ExpectUnsupported
    /\ LET gen == GenerateFor(ReadyClient, cases[idx], now, resp)
           t   == [task[idx] EXCEPT !.gen = gen, !.nGen = @ + 1, !.now = now,
                                    !.req = RequestOf(ReadyClient, cases[idx], now)]
       IN  Finish(idx, t, runUnsupportedEval(cases[idx], gen))

\* wg.Done() called on the passing path only, not deferred.
TaskDone_NotDeferred(idx) ==
    /\ task[idx].pc = "written"
    /\ task[idx].result.Passed
    /\ task' = [task EXCEPT ![idx].pc = "done", ![idx].nDone = @ + 1]
    /\ wg' = wg - 1
    /\ UNCHANGED <<cases, results, mainPc, firstErr, firstDone, slotLog>>
    /\ UNCHANGED <<genVars, gramVars, sumVars, execVars, handlerVars, cmpVars, checkVars, apiVars>>

\* The deferred wg.Done().
TaskDone(idx) ==
    /\ task[idx].pc = "written"
    /\ task' = [task EXCEPT ![idx].pc = "done", ![idx].nDone = @ + 1]
    /\ wg' = wg - 1
    /\ UNCHANGED <<cases, results, mainPc, firstErr, firstDone, slotLog>>
    /\ UNCHANGED <<genVars, gramVars, sumVars, execVars, handlerVars, cmpVars, checkVars, apiVars>>

EvalNext(engineAnswers, serviceResponses, clock) ==
    \/ Spawn
    \/ Wait
    \/ Scan
    \/ \E idx \in 1..Len(cases), ans \in engineAnswers : RunExpected(idx, ans)
    \/ \E idx \in 1..Len(cases), now \in clock, resp \in serviceResponses :
          RunGenerate(idx, now, resp)
    \/ \E idx \in 1..Len(cases), ans \in engineAnswers : RunExecute(idx, ans)
    \/ \E idx \in 1..Len(cases), now \in clock, resp \in serviceResponses :
          RunUnsupported(idx, now, resp)
    \/ \E idx \in 1..Len(cases) : TaskDone(idx)

\* RunEvals on NumCases cases, with few distinct answers.
RunInit ==
    /\ EvalStart(ChosenCases(NumCases))
    /\ GenParked /\ GramParked /\ SumParked
    /\ ExecParked /\ HandlerParked /\ ApiParked /\ CmpParked /\ CheckParked
RunNext == EvalNext(RunEngineAnswers, RunServiceResponses, RunClock)
SpecRun == RunInit /\ [][RunNext]_vars

\* A step of the goroutine of case idx.
TaskStep(idx) ==
    \/ \E ans \in RunEngineAnswers : RunExpected(idx, ans)
    \/ \E now \in RunClock, resp \in RunServiceResponses : RunGenerate(idx, now, resp)
    \/ \E ans \in RunEngineAnswers : RunExecute(idx, ans)
    \/ \E now \in RunClock, resp \in RunServiceResponses : RunUnsupported(idx, now, resp)
    \/ TaskDone(idx)

\* RunEvals when the scheduler runs every goroutine that can run and every
\* external call returns: no routine that can take a step waits forever.
SpecRunFair ==
    /\ SpecRun
    /\ WF_vars(Spawn) /\ WF_vars(Wait) /\ WF_vars(Scan)
    /\ \A idx \in 1..NumCases : WF_vars(TaskStep(idx))

\* runEval on each single case, with every kind of answer.
CaseInit ==
    /\ \E k \in 1..Len(DefaultEvalCases) : EvalStart(<<DefaultEvalCases[k]>>)
    /\ GenParked /\ GramParked /\ SumParked
    /\ ExecParked /\ HandlerParked /\ ApiParked /\ CmpParked /\ CheckParked
CaseNext == EvalNext(CaseEngineAnswers, ServiceResponses, WallClock)
SpecCase == CaseInit /\ [][CaseNext]_vars

----------------------------------------------------------------------------
(* Specification of the build-time gate: one run of eval-check *)

\* MainExit logging the failure without exiting on it.
MainExit_LogOnly(evalErr) ==
    IF evalErr # NilErr
    THEN [code |-> 0, log |-> "BUILD FAILED: Evals did not pass"]
    ELSE [code |-> 0, log |-> "BUILD OK: All evals passed"]

\* The end of main: os.Exit(1) on an eval error, a normal return otherwise.
MainExit(evalErr) ==
    IF evalErr # NilErr
    THEN [code |-> 1, log |-> "BUILD FAILED: Evals did not pass"]
    ELSE [code |-> 0, log |-> "BUILD OK: All evals passed"]

\* The process at the first line of main, in any environment.
CheckReady ==
    /\ checkPc = "main"
    /\ checkEnv \in [cfgOk : BOOLEAN, schemaOk : BOOLEAN]
    /\ exitCode = 0
    /\ buildLog = ""
    /\ checkSteps = <<>>

CheckInit ==
    /\ CheckReady
    /\ EvalParked
    /\ GenParked /\ GramParked /\ SumParked
    /\ ExecParked /\ HandlerParked /\ ApiParked /\ CmpParked

\* main up to the call of RunEvals: it exits when LoadConfig or FetchSchema
\* fails, and otherwise enters RunEvals, which sizes the result array.
CheckStart ==
    /\ checkPc = "main"
    /\ IF ~checkEnv.cfgOk
       THEN /\ buildLog' = "Failed to load config"
            /\ exitCode' = 1
            /\ checkPc' = "exited"
            /\ checkSteps' = <<>>
            /\ UNCHANGED evalVars
       ELSE IF ~checkEnv.schemaOk
       THEN /\ buildLog' = "Failed to fetch schema"
            /\ exitCode' = 1
            /\ checkPc' = "exited"
            /\ checkSteps' = <<"FetchSchema">>
            /\ UNCHANGED evalVars
       ELSE /\ buildLog' = "Running evals..."
            /\ checkPc' = "evals"
            /\ checkSteps' = <<"FetchSchema", "SetSchema", "RunEvals">>
            /\ cases' = ChosenCases(NumCases)
            /\ results' = [i \in 1..NumCases |-> ZeroResult]
            /\ task' = [i \in 1..NumCases |-> NewTask]
            /\ slotLog' = [i \in 1..NumCases |-> <<>>]
            /\ mainPc' = "spawn"
            /\ UNCHANGED <<exitCode, wg, firstErr, firstDone>>
    /\ UNCHANGED checkEnv
    /\ UNCHANGED <<genVars, gramVars, sumVars, execVars, handlerVars, cmpVars, apiVars>>

\* main from the return of RunEvals to the end of the process.
CheckExit ==
    /\ checkPc = "evals"
    /\ mainPc = "returned"
    /\ exitCode' = MainExit(firstErr).code
    /\ buildLog' = MainExit(firstErr).log
    /\ checkPc' = "exited"
    /\ UNCHANGED <<checkEnv, checkSteps>>
    /\ UNCHANGED <<genVars, gramVars, evalVars, sumVars, execVars, handlerVars, cmpVars, apiVars>>

CheckNext ==
    \/ CheckStart
    \/ EvalNext(RunEngineAnswers, RunServiceResponses, RunClock)
    \/ CheckExit

SpecCheck == CheckInit /\ [][CheckNext]_vars

----------------------------------------------------------------------------
(* Specification of the eval endpoint: one request served by api/eval *)

ApiMethods == { "OPTIONS", "GET", "POST", "PUT" }

\* Handler up to the call of RunEvals: it answers and returns on OPTIONS,
\* on a method other than GET and POST and when LoadConfig or FetchSchema
\* fails, and otherwise sets the schema and enters RunEvals.
ApiStart(r) ==
    /\ apiPc = "idle"
    /\ apiReq' = r
    /\ IF r.Method = "OPTIONS"
       THEN /\ apiResp' = ApiHeaderOnly(StatusOK)
            /\ apiSteps' = <<>>
            /\ apiPc' = "done"
            /\ UNCHANGED evalVars
       ELSE IF r.Method \notin {"GET", "POST"}
       THEN /\ apiResp' = ApiError(StatusMethodNotAllowed, "method not allowed")
            /\ apiSteps' = <<>>
            /\ apiPc' = "done"
            /\ UNCHANGED evalVars
       ELSE IF ~r.cfgOk
       THEN /\ apiResp' = ApiError(StatusInternalServerError, "server configuration error")
            /\ apiSteps' = <<>>
            /\ apiPc' = "done"
            /\ UNCHANGED evalVars
       ELSE IF ~r.schemaOk
       THEN /\ apiResp' = ApiError(StatusInternalServerError, "failed to fetch schema")
            /\ apiSteps' = <<"FetchSchema">>
            /\ apiPc' = "done"
            /\ UNCHANGED evalVars
       ELSE /\ apiSteps' = <<"FetchSchema", "SetSchema", "RunEvals">>
            /\ apiPc' = "evals"
            /\ cases' = ChosenCases(NumCases)
            /\ results' = [i \in 1..NumCases |-> ZeroResult]
            /\ task' = [i \in 1..NumCases |-> NewTask]
            /\ slotLog' = [i \in 1..NumCases |-> <<>>]
            /\ mainPc' = "spawn"
            /\ UNCHANGED <<apiResp, wg, firstErr, firstDone>>
    /\ UNCHANGED <<genVars, gramVars, sumVars, execVars, handlerVars, cmpVars, checkVars>>

\* Handler from the return of RunEvals to its own return.
ApiRespond ==
    /\ apiPc = "evals"
    /\ mainPc = "returned"
    /\ apiResp' = ApiReport(results, firstErr)
    /\ apiPc' = "done"
    /\ UNCHANGED <<apiReq, apiSteps>>
    /\ UNCHANGED <<genVars, gramVars, evalVars, sumVars, execVars, handlerVars, cmpVars, checkVars>>

ApiNext ==
    \E method \in ApiMethods, cfgOk \in BOOLEAN, schemaOk \in BOOLEAN :
        ApiStart(ApiRequest(method, cfgOk, schemaOk))

----------------------------------------------------------------------------
(* Specification of the executor: one call of ExecuteQuery *)

\* The longest sql argument ExecuteQuery is checked with.
MaxSqlLen == 4

\* "x", " ", ";" and a newline.
SqlAlphabet == { 120, 32, 59, 10 }

SqlTexts == UNION { [1..n -> SqlAlphabet] : n \in 0..MaxSqlLen }

\* Engine answers: every failure of ExecuteQuery, among them the request
\* that could not be created, two more non-200 statuses and the tables of
\* the single-case run.
ExecEngineAnswers ==
    CaseEngineAnswers
    \cup { RequestNotCreated,
           EngineAnswer(TRUE, TRUE, 500, "", FALSE, NoTable),
           EngineAnswer(TRUE, TRUE, 204, "", FALSE, NoTable) }

ExecInit ==
    /\ ExecParked
    /\ GenParked /\ GramParked /\ EvalParked /\ SumParked
    /\ HandlerParked /\ ApiParked /\ CmpParked /\ CheckParked

\* One call of ExecuteQuery; ans is the engine's answer to the request, or
\* RequestNotCreated.
ExecCall(sql, ans) ==
    /\ execPc = "idle"
    /\ execSql' = sql
    /\ execQuery' = DispatchedQuery(sql)
    /\ execAns' = ans
    /\ execResult' = ExecuteQuery(sql, ans)
    /\ execPc' = "done"
    /\ UNCHANGED <<genVars, gramVars, evalVars, sumVars, handlerVars, cmpVars, checkVars, apiVars>>

ExecNext == \E sql \in SqlTexts, ans \in ExecEngineAnswers : ExecCall(sql, ans)

SpecExec == ExecInit /\ [][ExecNext]_vars

----------------------------------------------------------------------------
(* Specification of the query endpoint: one request served by Handler *)

Methods == { "OPTIONS", "POST", "GET" }

\* Service answers met by the handler: the failures, and the 200 answers
\* with no output item or one.
HandlerServiceResponses ==
    { r \in ServiceResponses : Len(r.output) <= 1 }

\* Engine answers met by the handler: a transport failure, a rejection and
\* a one-row table.
HandlerEngineAnswers == RunEngineAnswers \cup { NoAnswer }

HandlerInit ==
    /\ HandlerParked /\ ApiParked
    /\ GenParked /\ GramParked /\ EvalParked /\ SumParked
    /\ ExecParked /\ CmpParked /\ CheckParked

\* One request served from its first line to its return.
HandlerCall(r) ==
    /\ handlerPc = "idle"
    /\ handlerReq' = r
    /\ handlerCalls' = Handler(r).calls
    /\ handlerResp' = Handler(r).resp
    /\ handlerPc' = "done"
    /\ UNCHANGED <<genVars, gramVars, evalVars, sumVars, execVars, cmpVars, checkVars, apiVars>>

HandlerNext ==
    \E method \in Methods, bodyOk \in BOOLEAN, query \in Queries \cup {""},
       cfgOk \in BOOLEAN, schemaOk \in BOOLEAN, s \in SampleSchemas, now \in RunClock,
       resp \in HandlerServiceResponses, ans \in HandlerEngineAnswers :
        HandlerCall(HandlerRequest(method, bodyOk, query, cfgOk, schemaOk, s, now, resp, ans))

SpecHandler == HandlerInit /\ [][HandlerNext]_vars

----------------------------------------------------------------------------
(* Specification of the entry points: one run of one of them, which is    *)
(* the query endpoint serving a request, the eval endpoint serving a      *)
(* request, eval-check, or a caller using an OpenAIClient directly        *)

\* The parts that are not the entry point of the run.
GenOff ==
    /\ genPc = "off"
    /\ genClient = NewOpenAIClient
    /\ genReq = NoRequest
    /\ genResp = NoResponse
    /\ genResult = [sql |-> <<>>, err |-> NilErr]

HandlerOff ==
    /\ handlerPc = "off"
    /\ handlerReq = NoHandlerReq
    /\ handlerCalls = NoHandlerCalls
    /\ handlerResp = NoHandlerResp

CheckOff ==
    /\ checkPc = "off"
    /\ checkEnv = [cfgOk |-> FALSE, schemaOk |-> FALSE]
    /\ exitCode = 0
    /\ buildLog = ""
    /\ checkSteps = <<>>

ApiOff ==
    /\ apiPc = "off"
    /\ apiReq = NoApiReq
    /\ apiSteps = <<>>
    /\ apiResp = NoApiResp

EntryInit ==
    /\ GramParked /\ EvalParked /\ SumParked /\ ExecParked /\ CmpParked
    /\ \/ HandlerParked /\ ApiOff /\ CheckOff /\ GenOff
       \/ HandlerOff /\ ApiParked /\ CheckOff /\ GenOff
       \/ HandlerOff /\ ApiOff /\ CheckReady /\ GenOff
       \/ HandlerOff /\ ApiOff /\ CheckOff /\ GenParked

EntryNext ==
    \/ handlerPc = "idle" /\ HandlerNext
    \/ apiPc = "idle" /\ ApiNext
    \/ ApiRespond
    \/ CheckStart
    \/ CheckExit
    \/ EvalNext(RunEngineAnswers, RunServiceResponses, RunClock)
    \/ genPc = "idle" /\ GenNext

SpecEntry == EntryInit /\ [][EntryNext]_vars

----------------------------------------------------------------------------
(* Specification of the comparison: two calls of valuesEqual, or one call *)
(* of rowEqual, or one call of dataEqual *)

\* Decoded scalars: 0, 0.00004, -0.00004, 0.1, 0.10002, 1, 2, 100.00001
\* and 100.00002, two strings and null; and two pairs whose difference
\* is exactly 0.0001 of their average, 0.20001 with 0.19999 (the float64
\* quotient is below 0.0001) and 1.00005 with 0.99995 (it is not).
Scalars ==
    { Num(0), Num(4), Num(-4), Num(10000), Num(10002), Num(100000), Num(200000),
      Num(10000001), Num(10000002), StrVal("a"), StrVal("b"), Null,
      Num(20001), Num(19999), Num(100005), Num(99995) }

CmpInit ==
    /\ CmpParked
    /\ GenParked /\ GramParked /\ EvalParked /\ SumParked
    /\ ExecParked /\ HandlerParked /\ ApiParked /\ CheckParked

\* One call of valuesEqual; the call before it is kept for comparison.
ValuesEqualCall(a, b) ==
    /\ cmpPc \in {"first", "second"}
    /\ cmpPrev' = IF cmpPc = "second"
                  THEN [a |-> cmpIn[1], b |-> cmpIn[2], out |-> cmpOut, made |-> TRUE]
                  ELSE cmpPrev
    /\ cmpIn' = <<a, b>>
    /\ cmpOut' = valuesEqual(a, b)
    /\ cmpPc' = IF cmpPc = "first" THEN "second" ELSE "done"
    /\ UNCHANGED <<genVars, gramVars, evalVars, sumVars, execVars, handlerVars, checkVars, apiVars>>

\* Rows of at most MaxRowCols columns over three column names and four
\* values: 1, 1.00001 (within the tolerance of 1), 2 and a string.
MaxRowCols == 2
RowColumns == {"k", "v", "count()"}
RowValues  == { Num(100000), Num(100001), Num(200000), StrVal("x") }

RowsOver(cols) == [cols -> RowValues]

\* Result sets of at most MaxRows rows.
MaxRows == 2
TableRows ==
    { Row1("v", Num(100000)), Row1("total", Num(100001)), Row1("v", Num(200000)),
      Row2("k", StrVal("x"), "v", Num(100000)),
      Row2("k", StrVal("y"), "v", Num(200000)) }

\* One call of rowEqual.
RowEqualCall(a, b) ==
    /\ cmpPc = "first"
    /\ cmpIn' = <<a, b>>
    /\ cmpOut' = rowEqual(a, b)
    /\ cmpPc' = "row"
    /\ UNCHANGED cmpPrev
    /\ UNCHANGED <<genVars, gramVars, evalVars, sumVars, execVars, handlerVars, checkVars, apiVars>>

\* One call of dataEqual.
DataEqualCall(a, b) ==
    /\ cmpPc = "first"
    /\ cmpIn' = <<a, b>>
    /\ cmpOut' = dataEqual(a, b)
    /\ cmpPc' = "data"
    /\ UNCHANGED cmpPrev
    /\ UNCHANGED <<genVars, gramVars, evalVars, sumVars, execVars, handlerVars, checkVars, apiVars>>

CmpNext ==
    \/ \E a, b \in Scalars : ValuesEqualCall(a, b)
    \/ /\ cmpPc = "first"
       /\ \E ca, cb \in SUBSET RowColumns :
             /\ Cardinality(ca) <= MaxRowCols
             /\ Cardinality(cb) <= MaxRowCols
             /\ \E a \in RowsOver(ca), b \in RowsOver(cb) : RowEqualCall(a, b)
    \/ /\ cmpPc = "first"
       /\ \E la, lb \in 0..MaxRows :
             \E a \in [1..la -> TableRows], b \in [1..lb -> TableRows] : DataEqualCall(a, b)

SpecCmp == CmpInit /\ [][CmpNext]_vars

----------------------------------------------------------------------------
(* Specification of the summary: one call of ComputeSummary *)

\* The longest result list ComputeSummary is checked with.
MaxResults == 6

PassedResult == [NewResult(DefaultEvalCases[1]) EXCEPT !.Passed = TRUE]
FailedResult == [NewResult(DefaultEvalCases[2]) EXCEPT !.Error = Str("data mismatch")]

SumInit ==
    /\ sumPc = "idle"
    /\ sumIn \in UNION { [1..n -> {PassedResult, FailedResult}] : n \in 0..MaxResults }
    /\ sumOut = [Total |-> 0, Passed |-> 0, Failed |-> 0, PassRate |-> Float64Zero]
    /\ GenParked /\ GramParked /\ EvalParked
    /\ ExecParked /\ HandlerParked /\ ApiParked /\ CmpParked /\ CheckParked

ComputeSummaryCall ==
    /\ sumPc = "idle"
    /\ sumOut' = ComputeSummary(sumIn)
    /\ sumPc' = "done"
    /\ UNCHANGED sumIn
    /\ UNCHANGED <<genVars, gramVars, evalVars, execVars, handlerVars, cmpVars, checkVars, apiVars>>

SumNext == ComputeSummaryCall

SpecSum == SumInit /\ [][SumNext]_vars

----------------------------------------------------------------------------
(* Specification of the grammar synthesizer: one call of GenerateGrammar *)

\* The most datasources of a schema, and the most columns of a datasource.
MaxTables == 2
MaxCols   == 2

\* "t", "u", "T"
TableNamePool == { <<116>>, <<117>>, <<84>> }

\* "B", "a-b", "a_b"
ColNamePool == { <<66>>, <<97, 45, 98>>, <<97, 95, 98>> }

Injective(f) == \A i, j \in DOMAIN f : f[i] = f[j] => i = j

\* The column lists of a datasource: distinct names, in any order.
ColumnLists ==
    { [i \in DOMAIN names |-> [Name |-> names[i], Type |-> "String"]] :
        names \in { f \in UNION { [1..n -> ColNamePool] : n \in 0..MaxCols } : Injective(f) } }

\* The schema of a catalog: datasources of distinct names, in any order.
IsSchemaOf(s, names, cols) ==
    /\ Injective(names)
    /\ s = [i \in DOMAIN names |-> [Name |-> names[i], Columns |-> cols[i]]]

GramInit ==
    /\ gramPc = "idle"
    /\ \E n \in 0..MaxTables :
          \E names \in [1..n -> TableNamePool], cols \in [1..n -> ColumnLists] :
              IsSchemaOf(schema, names, cols)
    /\ grammar = <<>>
    /\ grammar2 = <<>>
    /\ GenParked /\ EvalParked /\ SumParked
    /\ ExecParked /\ HandlerParked /\ ApiParked /\ CmpParked /\ CheckParked

\* A call of GenerateGrammar; the map iteration takes any order.
GenerateGrammarCall ==
    /\ gramPc = "idle"
    /\ \E keys \in IterationOrders(ColumnSet(schema)) :
          grammar' = GenerateGrammarFrom(schema, keys)
    /\ gramPc' = "done"
    /\ UNCHANGED <<schema, grammar2>>
    /\ UNCHANGED <<genVars, evalVars, sumVars, execVars, handlerVars, cmpVars, checkVars, apiVars>>

\* A second call of GenerateGrammar on the same schema.
GenerateGrammarAgain ==
    /\ gramPc = "done"
    /\ \E keys \in IterationOrders(ColumnSet(schema)) :
          grammar2' = GenerateGrammarFrom(schema, keys)
    /\ gramPc' = "twice"
    /\ UNCHANGED <<schema, grammar>>
    /\ UNCHANGED <<genVars, evalVars, sumVars, execVars, handlerVars, cmpVars, checkVars, apiVars>>

GramNext == GenerateGrammarCall \/ GenerateGrammarAgain

SpecGram == GramInit /\ [][GramNext]_vars

----------------------------------------------------------------------------
(* Claims about the generator *)

\* The three kinds of result a call can return.
IsSqlOutcome(r)         == r.err = NilErr
IsUnsupportedOutcome(r) == r.err.kind = "unsupported" /\ r.sql = <<>>
IsFailure(r)            == r.err.kind = "generic" /\ r.sql = <<>>

HasSqlCall(output)     == \E i \in 1..Len(output) : IsSqlCall(output[i])
HasRefusalCall(output) == \E i \in 1..Len(output) : IsRefusalCall(output[i])

\* The position of the first sql_generator or cannot_answer call.
FirstCall(output) ==
    CHOOSE i \in 1..Len(output) :
        /\ IsSqlCall(output[i]) \/ IsRefusalCall(output[i])
        /\ \A j \in 1..(i - 1) : ~(IsSqlCall(output[j]) \/ IsRefusalCall(output[j]))

\* The response was a 200 with a body that parsed.
Answered(resp) == resp.doOk /\ resp.readOk /\ resp.status = StatusOK /\ resp.parseOk

\* C1 as stated: every finished call produced SQL (nil error) or an
\* Unsupported refusal, exactly one of the two, never neither.
C1_SqlOrUnsupportedAlways ==
    genPc = "done" =>
        (IsSqlOutcome(genResult) /\ ~IsUnsupportedOutcome(genResult))
        \/ (IsUnsupportedOutcome(genResult) /\ ~IsSqlOutcome(genResult))

\* C1 amended: every finished call returns exactly one of SQL text with a
\* nil error, an Unsupported refusal with no SQL, or a generic failure with
\* no SQL; SQL text never comes with an error; and when the response holds
\* both a sql_generator and a cannot_answer call, the first of them in
\* output order alone decides the outcome.
C1_ExactlyOneOutcome ==
    genPc = "done" =>
        /\ Cardinality({ k \in {"sql", "unsupported", "failure"} :
               \/ k = "sql" /\ IsSqlOutcome(genResult)
               \/ k = "unsupported" /\ IsUnsupportedOutcome(genResult)
               \/ k = "failure" /\ IsFailure(genResult) }) = 1
        /\ genResult.sql # <<>> => genResult.err = NilErr
        /\ (Answered(genResp) /\ HasSqlCall(genResp.output) /\ HasRefusalCall(genResp.output)) =>
              LET first == genResp.output[FirstCall(genResp.output)]
              IN  IF IsSqlCall(first)
                  THEN genResult = [sql |-> Str(first.Input), err |-> NilErr]
                  ELSE genResult = [sql |-> <<>>, err |-> RefusalOf(first)]

\* A call answered with both calls, the refusal first and SQL second.
C1_Witness ==
    /\ genPc = "done"
    /\ Answered(genResp)
    /\ Len(genResp.output) = 2
    /\ IsRefusalCall(genResp.output[1])
    /\ IsSqlCall(genResp.output[2])
    /\ IsUnsupportedOutcome(genResult)

\* C2: a call returns ErrUnsupportedQuery only on a 200 response whose body
\* parsed and holds a cannot_answer function call; a transport failure, a
\* non-200 status, an unparseable body or an output using neither channel
\* yields a generic error.
C2_UnsupportedOnlyOnRefusal ==
    genPc = "done" =>
        /\ genResult.err.kind = "unsupported" =>
              /\ genReq # NoRequest
              /\ Answered(genResp)
              /\ HasRefusalCall(genResp.output)
        /\ (genReq # NoRequest
            /\ (~Answered(genResp)
                \/ ~(HasSqlCall(genResp.output) \/ HasRefusalCall(genResp.output)))) =>
              genResult.err.kind = "generic"

\* A 200 response that parsed but uses neither channel ended in a generic error.
C2_Witness ==
    /\ genPc = "done"
    /\ genReq # NoRequest
    /\ Answered(genResp)
    /\ Len(genResp.output) > 0
    /\ ~(HasSqlCall(genResp.output) \/ HasRefusalCall(genResp.output))
    /\ genResult.err.kind = "generic"

\* The call that decided the outcome was a refusal.
RefusedBy(resp) ==
    /\ Answered(resp)
    /\ HasSqlCall(resp.output) \/ HasRefusalCall(resp.output)
    /\ IsRefusalCall(resp.output[FirstCall(resp.output)])

\* C18: when the service used the refusal channel and the payload of the
\* call does not parse, the call returns ErrUnsupportedQuery with the fixed
\* reason "Query cannot be answered with available data", not a failure.
C18_GenericReasonOnBadPayload ==
    (genPc = "done" /\ genReq # NoRequest /\ RefusedBy(genResp)) =>
        LET item == genResp.output[FirstCall(genResp.output)]
        IN  ~UnmarshalCannotAnswer(item.Input).ok =>
                /\ genResult.sql = <<>>
                /\ genResult.err.kind = "unsupported"
                /\ genResult.err.msg = <<"Query cannot be answered with available data">>

\* A refusal whose payload is not JSON was returned as Unsupported.
C18_Witness ==
    /\ genPc = "done"
    /\ genReq # NoRequest
    /\ RefusedBy(genResp)
    /\ genResp.output[FirstCall(genResp.output)].Input = PayloadBad
    /\ genResult.err.kind = "unsupported"

\* C19: every ErrUnsupportedQuery a call returns carries a non-empty
\* reason, also when the payload of cannot_answer parses but has no reason
\* field or an empty one.
C19_ReasonNeverEmpty ==
    (genPc = "done" /\ genResult.err.kind = "unsupported") =>
        genResult.err.msg # <<>>

----------------------------------------------------------------------------
(* Claims about the harness *)

Written(i) == task[i].pc \in {"written", "done"}
Failing    == { i \in 1..Len(cases) : ~results[i].Passed }
Lowest(S)  == CHOOSE i \in S : \A j \in S : i <= j

\* C3: when RunEvals returns, the result at index i is the result of input
\* case i, whatever the order in which the goroutines ran and finished.
C3_IndexStable ==
    mainPc = "returned" =>
        \A i \in 1..Len(cases) : results[i].Name = cases[i].Name

\* RunEvals returned after the goroutine of the last case finished first.
C3_Witness ==
    /\ mainPc = "returned"
    /\ Len(cases) > 1
    /\ firstDone = Len(cases)

\* C4: RunEvals passes the barrier (and so scans and returns) only when
\* every goroutine has finished, and then every slot holds the completed
\* result of its case, failures of earlier cases notwithstanding.
C4_NoShortCircuit ==
    mainPc \in {"joined", "returned"} =>
        /\ Len(results) = Len(cases)
        /\ \A i \in 1..Len(cases) :
              /\ task[i].pc = "done"
              /\ results[i] = task[i].result
              /\ results[i] # ZeroResult

\* RunEvals returned with the first case failed, having finished first,
\* and the last case passed.
C4_Witness ==
    /\ mainPc = "returned"
    /\ Len(cases) > 1
    /\ firstDone = 1
    /\ ~results[1].Passed
    /\ results[Len(cases)].Passed

\* C5: RunEvals returns a non-nil error exactly when some result has
\* Passed = false, and the error names the failing case of lowest index and
\* carries that case's error message.
C5_FirstFailureByIndex ==
    mainPc = "returned" =>
        /\ firstErr # NilErr <=> Failing # {}
        /\ Failing # {} =>
              firstErr = Errorf(<<Str("eval "), Str(cases[Lowest(Failing)].Name),
                                  Str(" failed: "), results[Lowest(Failing)].Error>>)

\* Two cases failed, the one of higher index first in time; the error
\* returned is about the one of lower index.
C5_Witness ==
    /\ mainPc = "returned"
    /\ Cardinality(Failing) >= 2
    /\ firstDone \in Failing
    /\ firstDone # Lowest(Failing)
    /\ firstErr # NilErr

\* C6: the result of case i is determined by case i and by what case i's
\* own calls returned: a slot not yet written is untouched, a written slot
\* holds runEval of its own case and answers, whatever the other cases did.
C6_Independent ==
    \A i \in 1..Len(cases) :
        IF Written(i)
        THEN results[i] = runEval(cases[i], task[i].exp, task[i].gen, task[i].exec)
        ELSE results[i] = ZeroResult

\* Case 2 finished first and passed, then case 1 failed; both are written.
C6_Witness ==
    /\ Len(cases) > 1
    /\ Written(1) /\ Written(2)
    /\ firstDone = 2
    /\ results[2].Passed
    /\ ~results[1].Passed

\* C8: a normal case passes exactly when the reference SQL executed,
\* generation returned SQL, the generated SQL executed, the reported row
\* counts are equal and the data compare equal; otherwise its error names
\* the first of these steps that failed.
C8_NormalCaseVerdict ==
    \A i \in 1..Len(cases) :
        (Written(i) /\ ~cases[i].ExpectUnsupported) =>
            LET t == task[i]
                r == results[i]
                expOk  == t.nExec >= 1 /\ t.exp.err = NilErr
                genOk  == expOk /\ t.nGen = 1 /\ t.gen.err = NilErr
                execOk == genOk /\ t.nExec = 2 /\ t.exec.err = NilErr
                rowsOk == execOk /\ t.exp.resp.Rows = t.exec.resp.Rows
                dataOk == rowsOk /\ dataEqual(t.exp.resp.Data, t.exec.resp.Data)
            IN  /\ r.Passed <=> dataOk
                /\ ~r.Passed =>
                      /\ r.Error # <<>>
                      /\ Head(r.Error) =
                            IF ~expOk THEN "expected SQL failed: "
                            ELSE IF ~genOk THEN "generation failed: "
                            ELSE IF ~execOk THEN "generated SQL failed: "
                            ELSE IF ~rowsOk THEN "row count: expected "
                            ELSE "data mismatch"
                      /\ (execOk /\ ~rowsOk) =>
                            r.Error = <<"row count: expected ", ToString(t.exp.resp.Rows),
                                        ", got ", ToString(t.exec.resp.Rows)>>

\* A normal case whose two executions returned equal data but different
\* reported row counts was failed on the row count.
C8_Witness ==
    \E i \in 1..Len(cases) :
        /\ Written(i) /\ ~cases[i].ExpectUnsupported
        /\ task[i].nExec = 2 /\ task[i].exec.err = NilErr
        /\ task[i].exp.resp.Rows # task[i].exec.resp.Rows
        /\ dataEqual(task[i].exp.resp.Data, task[i].exec.resp.Data)
        /\ ~results[i].Passed

\* C9: an expect-unsupported case passes exactly when the generation call
\* returned ErrUnsupportedQuery; when it returned SQL or any other error
\* the case fails with a non-empty message.
C9_UnsupportedCaseVerdict ==
    \A i \in 1..Len(cases) :
        (Written(i) /\ cases[i].ExpectUnsupported) =>
            /\ task[i].nGen = 1
            /\ results[i].Passed <=> task[i].gen.err.kind = "unsupported"
            /\ ~results[i].Passed => results[i].Error # <<>>

\* An expect-unsupported case whose generation call failed with a generic
\* error was failed.
C9_Witness ==
    \E i \in 1..Len(cases) :
        /\ Written(i) /\ cases[i].ExpectUnsupported
        /\ task[i].gen.err.kind = "generic"
        /\ ~results[i].Passed
        /\ results[i].Error # <<>>

\* C16: the request a generation call sends is made of the query, the
\* grammar, the capability description and the reference time alone, and
\* its text holds the reference time; for a case with a ReferenceTime that
\* is the case's instant, whatever the wall clock shows at the call.
C16_RequestFromArguments ==
    \A i \in 1..Len(cases) :
        task[i].nGen = 1 =>
            LET t == IF cases[i].ReferenceTime.set
                     THEN cases[i].ReferenceTime.t
                     ELSE task[i].now
            IN  /\ task[i].req.input = <<t.text, t.text, cases[i].Query>>
                /\ task[i].req.grammar = ReadyClient.grammar
                /\ task[i].req.description = ReadyClient.toolDescription

\* The case with a ReferenceTime made its generation call at another wall
\* clock time, and the request holds the case's instant.
C16_Witness ==
    \E i \in 1..Len(cases) :
        /\ cases[i].ReferenceTime.set
        /\ task[i].nGen = 1
        /\ task[i].now.text # cases[i].ReferenceTime.t.text
        /\ task[i].req.input[1] = "2024-06-15 12:00:00"


\* C17: eval-check exits with failure when LoadConfig or FetchSchema
\* fails and when any eval case failed; it logs BUILD OK and exits with
\* status 0 only when RunEvals returned and every case passed.
C17_GateFailsOnFailure ==
    checkPc = "exited" =>
        /\ ~(checkEnv.cfgOk /\ checkEnv.schemaOk) => exitCode = 1
        /\ (mainPc = "returned" /\ Failing # {}) => exitCode = 1
        /\ buildLog = "BUILD OK: All evals passed" <=> exitCode = 0
        /\ exitCode = 0 =>
              /\ checkEnv.cfgOk /\ checkEnv.schemaOk
              /\ mainPc = "returned"
              /\ Len(results) = Len(cases)
              /\ \A i \in 1..Len(cases) : task[i].pc = "done" /\ results[i].Passed

\* The gate exited with failure on a run whose first case passed and whose
\* last case failed.
C17_Witness ==
    /\ checkPc = "exited"
    /\ mainPc = "returned"
    /\ Len(cases) > 1
    /\ results[1].Passed
    /\ ~results[Len(cases)].Passed
    /\ exitCode = 1

----------------------------------------------------------------------------
(* Claims about the summary *)

\* The results that did not pass.
FailedOf(rs) == Cardinality({ i \in 1..Len(rs) : ~rs[i].Passed })

\* Total = N, Passed = N - K and Failed = K.
CountsAre(s, N, K) ==
    /\ s.Total = N
    /\ s.Passed = N - K
    /\ s.Failed = K
    /\ s.Passed + s.Failed = s.Total

\* f * 2^k and p * 2^k as binary numbers scaled to a common exponent, for
\* a float64 f above 0, a natural p and k >= 0.
ScaledFloat(f, n, k) ==
    BitsMul(f.m, Binary(n)) \o Zeros(k + (IF f.e > 0 THEN f.e ELSE 0))
ScaledNat(f, p, k) ==
    Binary(p) \o Zeros(k + (IF f.e < 0 THEN -f.e ELSE 0))

\* f = p / n exactly, for a float64 f and naturals p and n > 0.
IsQuotient(f, p, n) ==
    IF f = Float64Zero \/ p = 0 THEN f = Float64Zero /\ p = 0
    ELSE StripZeros(ScaledFloat(f, n, 0)) = ScaledNat(f, p, 0)

\* |f - p / n| <= 2^-51 * p / n: f is p / n up to two roundings of float64
\* arithmetic.
RoundingBits == Precision - 2
IsQuotientRounded(f, p, n) ==
    IF f = Float64Zero \/ p = 0 THEN f = Float64Zero /\ p = 0
    ELSE LET fn  == ScaledFloat(f, n, RoundingBits)
             pp  == ScaledNat(f, p, RoundingBits)
             tol == ScaledNat(f, p, 0)
         IN  /\ ~BitsLess(BitsAdd(pp, tol), fn)
             /\ ~BitsLess(BitsAdd(fn, tol), pp)

\* C7 as stated: for N results of which K did not pass, ComputeSummary
\* returns Total = N, Passed = N - K, Failed = K and PassRate =
\* 100 * (N - K) / N, PassRate = 0 when N = 0; so Passed + Failed = Total.
C7_ExactPassRate ==
    sumPc = "done" =>
        LET N == Len(sumIn)
            K == FailedOf(sumIn)
        IN  /\ CountsAre(sumOut, N, K)
            /\ IF N = 0
               THEN sumOut.PassRate = Float64Zero
               ELSE IsQuotient(sumOut.PassRate, 100 * (N - K), N)

\* C7: for N results of which K did not pass, ComputeSummary returns
\* Total = N, Passed = N - K, Failed = K and a PassRate that is
\* 100 * (N - K) / N up to the rounding of float64 arithmetic (a relative
\* error of at most 2^-51), PassRate = 0 when N = 0 or K = N; so
\* Passed + Failed = Total.
C7_Summary ==
    sumPc = "done" =>
        LET N == Len(sumIn)
            K == FailedOf(sumIn)
        IN  /\ CountsAre(sumOut, N, K)
            /\ IF N = 0
               THEN sumOut.PassRate = Float64Zero
               ELSE IsQuotientRounded(sumOut.PassRate, 100 * (N - K), N)

\* A summary of three results of which one passed: the pass rate is not
\* 100 / 3 but within the rounding of it.
C7_Witness ==
    /\ sumPc = "done"
    /\ Len(sumIn) = 3
    /\ sumOut.Passed = 1
    /\ sumOut.Failed = 2
    /\ ~IsQuotient(sumOut.PassRate, 100, 3)
    /\ IsQuotientRounded(sumOut.PassRate, 100, 3)

----------------------------------------------------------------------------
(* Claims about the grammar *)

\* IDENTIFIER: /[A-Za-z_][A-Za-z0-9_]*/
IsIdentifier(n) ==
    /\ n # <<>>
    /\ IsUpper(n[1]) \/ IsLower(n[1]) \/ n[1] = Underscore
    /\ \A i \in 2..Len(n) :
          IsUpper(n[i]) \/ IsLower(n[i]) \/ IsDigit(n[i]) \/ n[i] = Underscore

\* The names the grammar's table rule accepts.
TableAdmits(g, n) ==
    \E i \in 1..Len(g) :
        \/ g[i][1] = "table:" /\ n \in Range(g[i][2])
        \/ g[i][1] = "table: IDENTIFIER" /\ IsIdentifier(n)

\* The names the grammar's column rule accepts: the literals of the
\* terminals it lists, or any identifier.
ColumnAdmits(g, n) ==
    \E i \in 1..Len(g) :
        \/ /\ g[i][1] = "column:"
           /\ \E j \in 1..Len(g) :
                 g[j][1] = "terminal" /\ g[j][2] \in Range(g[i][2]) /\ g[j][3] = n
        \/ g[i][1] = "column: IDENTIFIER" /\ IsIdentifier(n)

SchemaTables(s)  == Range(TableNamesOf(s))
SchemaColumns(s) == ColumnSet(s)

\* C10: for every schema, the grammar admits as table exactly the table
\* names of the schema and as column exactly its distinct column names,
\* each defined once; nothing absent from the schema is admitted.
C10_ExactNames ==
    gramPc = "done" =>
        /\ \A n \in TableNamePool \cup ColNamePool :
              /\ TableAdmits(grammar, n) <=> n \in SchemaTables(schema)
              /\ ColumnAdmits(grammar, n) <=> n \in SchemaColumns(schema)
        /\ \A n \in SchemaColumns(schema) :
              Cardinality({ i \in 1..Len(grammar) :
                  grammar[i][1] = "terminal" /\ grammar[i][3] = n }) = 1

\* The terminal definitions of a grammar, in text order.
Terminals(g) == { i \in 1..Len(g) : g[i][1] = "terminal" }

\* Two distinct raw column names of the schema sanitize to one identifier.
Collides(s) ==
    \E a, b \in ColumnSet(s) : a # b /\ sanitizeColumnName(a) = sanitizeColumnName(b)

\* C11: for a schema in which two distinct raw column names sanitize to the
\* same terminal identifier, synthesis fails and emits no grammar; no
\* emitted grammar defines a terminal identifier twice.
C11_CollisionRejected ==
    gramPc = "done" =>
        /\ Collides(schema) => grammar = <<>>
        /\ \A i, j \in Terminals(grammar) : grammar[i][2] = grammar[j][2] => i = j

\* The names of a sequence are in strictly ascending lexicographic order.
Ascending(names) ==
    \A i \in 1..(Len(names) - 1) : StrLess(names[i], names[i + 1])

\* The raw names of the terminal definitions, in text order.
RECURSIVE TerminalNames(_)
TerminalNames(g) ==
    IF g = <<>> THEN <<>>
    ELSE (IF Head(g)[1] = "terminal" THEN <<Head(g)[3]>> ELSE <<>>) \o TerminalNames(Tail(g))

\* C12: two calls of GenerateGrammar on the same schema yield the same
\* text, whatever order the map iteration takes; the table alternation
\* lists the schema's table names and the terminal definitions and column
\* alternation its column names, in ascending lexicographic order of the
\* raw names, whatever the order of tables and columns in the schema.
C12_Deterministic ==
    gramPc = "twice" =>
        /\ grammar2 = grammar
        /\ \A i \in 1..Len(grammar) :
              /\ grammar[i][1] = "table:" =>
                    /\ Ascending(grammar[i][2])
                    /\ Range(grammar[i][2]) = SchemaTables(schema)
              /\ grammar[i][1] = "column:" =>
                    /\ Ascending(TerminalNames(grammar))
                    /\ Range(TerminalNames(grammar)) = SchemaColumns(schema)
                    /\ grammar[i][2] =
                          [k \in 1..Len(TerminalNames(grammar)) |->
                              sanitizeColumnName(TerminalNames(grammar)[k])]

\* Two calls on a schema whose tables and whose columns are listed in
\* descending order.
C12_Witness ==
    /\ gramPc = "twice"
    /\ Len(schema) = 2
    /\ StrLess(schema[2].Name, schema[1].Name)
    /\ Len(schema[1].Columns) = 2
    /\ StrLess(schema[1].Columns[2].Name, schema[1].Columns[1].Name)
    /\ Len(TerminalNames(grammar2)) >= 2

----------------------------------------------------------------------------
(* Claims about the executor *)

\* The sql argument ends with a terminator, white space aside.
Terminated(sql) == HasSuffix(TrimRightSpace(sql), Semicolon)

\* The text before the terminator.
BeforeTerminator(sql) ==
    SubSeq(TrimRightSpace(sql), 1, Len(TrimRightSpace(sql)) - 1)

\* C13: for a sql argument made of a body, optional white space, one ";"
\* and optional white space, the query dispatched is the body without the
\* terminator and without the white space on both sides of it, followed by
\* " FORMAT JSON"; an argument without terminator is dispatched trimmed,
\* followed by " FORMAT JSON".
C13_TerminatorStripped ==
    execPc = "done" =>
        execQuery =
            (IF Terminated(execSql)
             THEN TrimSpace(BeforeTerminator(execSql))
             ELSE TrimSpace(execSql)) \o FormatJSON

\* C14: ExecuteQuery returns an error carrying the status code and the body
\* whenever the engine answers with a non-success status, and it returns a
\* response exactly when it returns no error.
C14_ErrorXorResult ==
    execPc = "done" =>
        /\ execResult.err = NilErr <=> ~execResult.resp.nil
        /\ (execAns.doOk /\ execAns.readOk /\ execAns.status \notin 200..299) =>
              /\ execResult.err.kind = "generic"
              /\ execResult.err.msg =
                    Sprintf(<<Str("tinybird error ("), Str(ToString(execAns.status)),
                              Str("): "), Str(execAns.raw)>>)
        /\ ~execResult.resp.nil => execResult.resp = execAns.body

\* The engine rejected the query with a 400 and a message.
C14_Witness ==
    /\ execPc = "done"
    /\ execAns.doOk /\ execAns.readOk
    /\ execAns.status = 400
    /\ execAns.raw # ""
    /\ execResult.err # NilErr
    /\ execResult.resp.nil

----------------------------------------------------------------------------
(* Claims about the query endpoint *)

\* C15: the handler answers a refusal with a 4xx status and the refusal
\* reason, any other failure of generation and any failure of execution
\* with a 5xx status, and a success status with {sql, data, rows} exactly
\* when generation and execution both succeeded.
C15_StatusClasses ==
    handlerPc = "done" =>
        LET gen  == handlerCalls.gen
            exec == handlerCalls.exec
            generated == handlerCalls.nGen = 1 /\ gen.err = NilErr
            executed  == handlerCalls.nExec = 1 /\ exec.err = NilErr
        IN  /\ (handlerCalls.nGen = 1 /\ gen.err.kind = "unsupported") =>
                  /\ handlerResp.status \in 400..499
                  /\ handlerResp.encoded
                  /\ handlerResp.body.Error = gen.err.msg
            /\ (handlerCalls.nGen = 1 /\ gen.err.kind = "generic") =>
                  handlerResp.status \in 500..599
            /\ (handlerCalls.nExec = 1 /\ exec.err # NilErr) =>
                  handlerResp.status \in 500..599
            /\ (handlerResp.status \in 200..299 /\ handlerResp.encoded)
                  <=> (generated /\ executed)
            /\ (generated /\ executed) =>
                  handlerResp.body =
                      [SQL |-> gen.sql, Data |-> exec.resp.Data,
                       Rows |-> exec.resp.Rows, Error |-> <<>>]

\* A POST whose generation call was refused was answered 400 with the
\* reason, and the engine was not called.
C15_Witness ==
    /\ handlerPc = "done"
    /\ handlerCalls.nGen = 1
    /\ handlerCalls.gen.err.kind = "unsupported"
    /\ handlerCalls.nExec = 0
    /\ handlerResp.status = StatusBadRequest
    /\ handlerResp.body.Error # <<>>

----------------------------------------------------------------------------
(* Claims about the scalar comparison *)

\* The last call and the call before it.
LastComparison == [a |-> cmpIn[1], b |-> cmpIn[2], out |-> cmpOut, made |-> cmpPc # "first"]

BothNumeric(o) == o.a.t = "num" /\ o.b.t = "num"

\* |a - b| and |a + b| (twice |average|) of a comparison of two numbers.
DiffOf(o) == Abs(o.a.n - o.b.n)
SumOf(o)  == Abs(o.a.n + o.b.n)

\* |a - b| / |average| >= 1e-4, that is 20000 * |a - b| >= |a + b|: the
\* numbers are apart relative to their average, so that only epsilon can
\* make the rule call them equal.
ApartRelatively(o) == DiffOf(o) > (SumOf(o) - 1) \div 20000

\* What the rule says of one comparison whatever epsilon is.
FitsRule(o) ==
    IF BothNumeric(o)
    THEN /\ o.a.n = o.b.n => o.out
         /\ (o.a.n # o.b.n /\ ~ApartRelatively(o)) => o.out
    ELSE o.out <=> (o.a = o.b)

\* Unequal numbers reported equal although they are apart relatively: the
\* rule then needs 1e-4 * epsilon > |a - b|.
NeedsEpsilonAbove(o) ==
    BothNumeric(o) /\ o.a.n # o.b.n /\ ApartRelatively(o) /\ o.out

\* Unequal numbers reported different: the rule then needs
\* 1e-4 * epsilon <= |a - b|.
NeedsEpsilonBelow(o) ==
    BothNumeric(o) /\ o.a.n # o.b.n /\ ~o.out

\* Some epsilon > 0 makes the rule give the results of both comparisons.
SomeEpsilonFits(o1, o2) ==
    /\ (NeedsEpsilonAbove(o1) /\ NeedsEpsilonBelow(o2)) => DiffOf(o1) < DiffOf(o2)
    /\ (NeedsEpsilonAbove(o2) /\ NeedsEpsilonBelow(o1)) => DiffOf(o2) < DiffOf(o1)

\* C20: valuesEqual of two numbers is true when they are equal and
\* otherwise exactly when |a-b| / max(|(a+b)/2|, epsilon) < 1e-4, for one
\* epsilon > 0 in all calls; of other values it is deep equality; and
\* (100.00001, 100.00002) are equal, (1, 2) are not, ("a", "a") are.
C20_RelativeTolerance ==
    cmpPc = "done" =>
        /\ FitsRule(LastComparison)
        /\ FitsRule(cmpPrev)
        /\ SomeEpsilonFits(cmpPrev, LastComparison)
        /\ cmpIn = <<Num(10000001), Num(10000002)>> => cmpOut
        /\ cmpIn = <<Num(100000), Num(200000)>> => ~cmpOut
        /\ cmpIn = <<StrVal("a"), StrVal("a")>> => cmpOut

----------------------------------------------------------------------------
(* Claims about the comparison of rows and result sets *)

RowCall  == cmpPc = "row"
DataCall == cmpPc = "data"

\* The value of a one-column row.
OnlyValue(r) == r[CHOOSE k \in DOMAIN r : TRUE]

OneColumn(r) == \E k \in DOMAIN r : DOMAIN r = {k}

\* C21: rows of exactly one column each are equal exactly when their
\* values are equal under valuesEqual, whatever the column names; any other
\* two rows are equal exactly when they have the same set of column names
\* and the values of every column are equal under valuesEqual.
C21_RowEquality ==
    RowCall =>
        LET a == cmpIn[1]
            b == cmpIn[2]
        IN  IF OneColumn(a) /\ OneColumn(b)
            THEN cmpOut <=> valuesEqual(OnlyValue(a), OnlyValue(b))
            ELSE cmpOut <=> /\ DOMAIN a = DOMAIN b
                            /\ \A k \in DOMAIN a \cap DOMAIN b : valuesEqual(a[k], b[k])

\* One-column rows with different column names and values within the
\* tolerance were found equal.
C21_Witness ==
    /\ RowCall
    /\ cmpIn = <<Row1("count()", Num(100000)), Row1("v", Num(100001))>>
    /\ cmpOut

\* C22: dataEqual holds exactly when the result sets have the same length
\* and their rows are equal position by position; a result set and the
\* same rows in another order are a mismatch.
C22_Positional ==
    DataCall =>
        LET a == cmpIn[1]
            b == cmpIn[2]
        IN  /\ cmpOut <=> /\ Len(a) = Len(b)
                           /\ \A i \in 1..Len(a) : i <= Len(b) => rowEqual(a[i], b[i])
            /\ (/\ Len(a) = 2
                 /\ ~rowEqual(a[1], a[2])
                 /\ b = <<a[2], a[1]>>) => ~cmpOut

\* Two result sets of the same two rows in opposite orders were compared.
C22_Witness ==
    /\ DataCall
    /\ cmpIn[1] = <<Row2("k", StrVal("x"), "v", Num(100000)),
                    Row2("k", StrVal("y"), "v", Num(200000))>>
    /\ cmpIn[2] = <<cmpIn[1][2], cmpIn[1][1]>>
    /\ ~cmpOut

----------------------------------------------------------------------------
(* Claims about the harness's concurrency *)

AllDone == \A i \in 1..Len(cases) : task[i].pc = "done"

\* The accesses a slot sees in a race-free run: one write by the goroutine
\* of its own index, then at most one read by the caller of RunEvals.
OwnWriteThenRead(slot) == << Access("write", slot), Access("read", MainRoutine) >>

IsPrefix(p, q) == Len(p) <= Len(q) /\ \A i \in 1..Len(p) : p[i] = q[i]

\* C23: every slot of the result array is written exactly once, by the
\* goroutine whose index it is, and read only after the barrier, when the
\* goroutine that wrote it has signalled completion: no two writes and no
\* read and write of a slot are unordered.
C23_NoRaceOnResults ==
    /\ \A slot \in 1..Len(cases) :
          /\ IsPrefix(slotLog[slot], OwnWriteThenRead(slot))
          /\ Written(slot) <=> Len(slotLog[slot]) >= 1
          /\ Len(slotLog[slot]) = 2 => mainPc = "returned"
    /\ mainPc \in {"joined", "returned"} => AllDone

\* RunEvals returned after the goroutine of the last case wrote first and
\* the scan read a slot.
C23_Witness ==
    /\ mainPc = "returned"
    /\ Len(cases) = NumCases
    /\ firstDone = Len(cases)
    /\ slotLog[1] = OwnWriteThenRead(1)
    /\ \A slot \in 1..Len(cases) : Len(slotLog[slot]) >= 1

----------------------------------------------------------------------------
(* Claims about the order of the steps of the entry points *)

ServingOrder == << "FetchSchema", "SetSchema", "GenerateSQL", "ExecuteQuery" >>

SchemaNotSet == Errorf(<<Str("schema not set: call SetSchema before GenerateSQL")>>)

\* C24: the query endpoint takes its steps in the order schema fetch,
\* SetSchema, generation, execution: its generation request carries the
\* grammar synthesized from the schema it fetched, and it executes only
\* after generation returned without error.  A client whose schema was
\* never set fails a generation call with "schema not set" and sends
\* nothing.
C24_StepsInOrder ==
    /\ handlerPc = "done" =>
          /\ IsPrefix(handlerCalls.steps, ServingOrder)
          /\ handlerCalls.nGen = 1 <=> Len(handlerCalls.steps) >= 3
          /\ handlerCalls.nExec = 1 <=> Len(handlerCalls.steps) = 4
          /\ handlerCalls.nGen = 1 =>
                /\ handlerCalls.req # NoRequest
                /\ handlerCalls.req.grammar # <<>>
                /\ handlerCalls.req.grammar = GenerateGrammar(handlerReq.schema)
                /\ handlerCalls.gen.err # SchemaNotSet
          /\ handlerCalls.nExec = 1 =>
                /\ handlerCalls.nGen = 1
                /\ handlerCalls.gen.err = NilErr
    /\ (genPc = "done" /\ genClient.grammar = <<>>) =>
          /\ genResult.err = SchemaNotSet
          /\ genReq = NoRequest
          /\ genResp = NoResponse
    /\ (genPc = "done" /\ genReq # NoRequest) => genReq.grammar # <<>>

\* The query endpoint answered 200 after taking all four steps.
C24_Witness ==
    /\ handlerPc = "done"
    /\ handlerCalls.steps = ServingOrder
    /\ handlerCalls.req.grammar # <<>>
    /\ handlerResp.status = StatusOK

\* No eval case was started: RunEvals was not entered.
NoEvalActivity ==
    /\ cases = <<>>
    /\ task = <<>>
    /\ results = <<>>
    /\ mainPc = "idle"

\* The entry point reached its schema fetch and the fetch failed.
QueryFetchFailed ==
    /\ handlerPc = "done"
    /\ handlerReq.Method = "POST"
    /\ handlerReq.cfgOk /\ handlerReq.bodyOk /\ handlerReq.Query # ""
    /\ ~handlerReq.schemaOk

ApiFetchFailed ==
    /\ apiPc \in {"evals", "done"}
    /\ apiReq.Method \in {"GET", "POST"}
    /\ apiReq.cfgOk
    /\ ~apiReq.schemaOk

CheckFetchFailed ==
    /\ checkPc \in {"evals", "exited"}
    /\ checkEnv.cfgOk
    /\ ~checkEnv.schemaOk

\* C25: when the schema fetch fails, the query endpoint, the eval endpoint
\* and eval-check each report the failure and stop: no SetSchema, no
\* generation call, no execution and no eval case follows the fetch.
C25_AbortOnFetchFailure ==
    /\ QueryFetchFailed =>
          /\ handlerResp = Encoded(StatusInternalServerError,
                                   [QueryResponse EXCEPT !.Error = Str("failed to fetch schema")])
          /\ handlerCalls.steps = <<"FetchSchema">>
          /\ handlerCalls.nGen = 0 /\ handlerCalls.nExec = 0
          /\ handlerCalls.req = NoRequest
    /\ ApiFetchFailed =>
          /\ apiPc = "done"
          /\ apiResp = ApiError(StatusInternalServerError, "failed to fetch schema")
          /\ apiSteps = <<"FetchSchema">>
          /\ NoEvalActivity
    /\ CheckFetchFailed =>
          /\ checkPc = "exited"
          /\ exitCode = 1
          /\ buildLog = "Failed to fetch schema"
          /\ checkSteps = <<"FetchSchema">>
          /\ NoEvalActivity

\* The query endpoint answered a POST whose schema fetch failed.
C25_Witness ==
    /\ QueryFetchFailed
    /\ handlerResp.status = StatusInternalServerError
    /\ handlerCalls.steps = <<"FetchSchema">>

----------------------------------------------------------------------------
(* Claims about the calls of an eval case *)

\* Some external call of the goroutine returned an error.
CallFailed(t) == t.exp.err # NilErr \/ t.gen.err # NilErr \/ t.exec.err # NilErr

\* C26: an eval case calls the executor at most twice and the generator
\* at most once; the step in which a call fails is the step that returns
\* the case's result, and after a failed call the case makes no call.
C26_NoRetry ==
    [][ \A i \in 1..Len(cases) :
          /\ task'[i].nExec <= 2
          /\ task'[i].nGen <= 1
          /\ CallFailed(task[i]) =>
                /\ task'[i].nExec = task[i].nExec
                /\ task'[i].nGen = task[i].nGen
          /\ (CallFailed(task'[i]) /\ ~CallFailed(task[i])) =>
                task'[i].pc = "written" ]_vars

\* A case whose reference SQL failed returned without calling the
\* generator.
C26_Witness ==
    \E i \in 1..Len(cases) :
        /\ task[i].pc = "done"
        /\ task[i].exp.err # NilErr
        /\ task[i].nExec = 1
        /\ task[i].nGen = 0

\* C27: every generation request carries a reference time supplied by the
\* caller, never the wall clock read inside the generator: the same call
\* made when the wall clock shows another instant builds the same request.
C27_NoAmbientClock ==
    \A i \in 1..Len(cases) :
        task[i].nGen = 1 =>
            \A later \in WallClock :
                task[i].req = RequestOf(ReadyClient, cases[i], later)

\* C28: a result returned by runEval or runUnsupportedEval has
\* Passed = true exactly when its Error is the empty string.
C28_PassedIffNoError ==
    \A i \in 1..Len(cases) :
        Written(i) =>
            /\ results[i].Passed <=> results[i].Error = <<>>
            /\ task[i].result.Passed <=> task[i].result.Error = <<>>

\* A case returned "data mismatch" and did not pass.
C28_Witness ==
    \E i \in 1..Len(cases) :
        /\ Written(i)
        /\ results[i].Error = Str("data mismatch")
        /\ ~results[i].Passed

\* C29: when every goroutine that can take a step eventually takes it,
\* every goroutine calls wg.Done exactly once, whichever path runEval
\* took, and RunEvals returns.
C29_RunEvalsReturns ==
    /\ [](\A i \in 1..Len(cases) : task[i].nDone <= 1)
    /\ <>(/\ mainPc = "returned"
           /\ wg = 0
           /\ \A i \in 1..Len(cases) : task[i].nDone = 1)

\* RunEvals returned after one goroutine left runEval at the failed
\* reference SQL, one at the failed generation and one at the comparison.
C29_Witness ==
    /\ mainPc = "returned"
    /\ \A i \in 1..Len(cases) : task[i].nDone = 1
    /\ \E i \in 1..Len(cases) : task[i].exp.err # NilErr
    /\ \E i \in 1..Len(cases) : task[i].nGen = 1 /\ task[i].gen.err # NilErr
    /\ \E i \in 1..Len(cases) : task[i].nExec = 2

\* C30: an expect-unsupported case sends nothing to the executor, neither
\* its reference SQL nor what the generator returned.
C30_UnsupportedNeverExecutes ==
    \A i \in 1..Len(cases) :
        cases[i].ExpectUnsupported =>
            /\ task[i].nExec = 0
            /\ task[i].exp = NoExec
            /\ task[i].exec = NoExec

\* An expect-unsupported case whose generation call returned SQL has
\* returned its result.
C30_Witness ==
    \E i \in 1..Len(cases) :
        /\ cases[i].ExpectUnsupported
        /\ Written(i)
        /\ task[i].gen.err = NilErr
        /\ task[i].gen.sql # <<>>
        /\ task[i].nExec = 0

====
